---------------------------- MODULE Spec2Model ----------------------------
(***************************************************************************)
(* Verification model of the Tendermint bridge core: the Merkle engine     *)
(* (src/src/merkle.rs), the enable-bit layer reduction and voting power    *)
(* accounting (src/src/validator.rs, src/src/commitment.rs), the step      *)
(* verification (src/src/step.rs) and the path indices and validator list *)
(* of the step inputs (src/src/inputs.rs).                                 *)
(*                                                                         *)
(* Hashes are modelled as terms of a free algebra, so that the leaf and    *)
(* inner hash are collision free and domain separated:                     *)
(*   leaf_hash(b)     = <<"L", b>>                                         *)
(*   inner_hash(l, r) = <<"I", l, r>>                                      *)
(* A byte string is a sequence; a 32-byte hash embedded in a byte string   *)
(* occupies one position of the sequence.                                  *)
(*                                                                         *)
(* The gadgets that lay out bytes (marshal_int64_varint,                   *)
(* marshal_tendermint_validator, encode_data_root_tuple,                   *)
(* verify_hash_in_message) are modelled on bits and bytes of their real    *)
(* width; the two-limb arithmetic is modelled on limbs of LimbBits bits.   *)
(***************************************************************************)
EXTENDS Integers, Sequences, FiniteSets, TLC

VARIABLES
    pc,         \* position of the modelled call sequence
    items,      \* merkle.rs: the leaves given to proofs_from_byte_slices
    built,      \* merkle.rs: (root_hash, proofs) returned by proofs_from_byte_slices
    call,       \* merkle.rs: the arguments of the Proof::verify call
    result,     \* merkle.rs: the outcome of Proof::verify: "Ok", "Err" or "Panic"
    length,     \* merkle.rs: the argument of get_split_point
    split,      \* merkle.rs: the value returned by get_split_point
    entries,    \* the byte string of every slot: validators / data root tuples
    enabled_in, \* validator_enabled: the enabled flag of every slot, as given
    current_nodes,          \* current_validator_hashes / current_nodes
    current_node_enabled,   \* current_validator_enabled / current_node_enabled
    merkle_layer_size,      \* merkle_layer_size of the reduction loop
    reduced,    \* the root the reduction returned: current_nodes[0]
    validators, \* step.rs: the validator slots given to step
    header,     \* step.rs: the hash of the target header
    prev_header,            \* step.rs: the hash of the previous header
    data_hash_proof,        \* step.rs: enc_leaf, path and aunts of the data_hash field
    validator_hash_proof,   \* step.rs: those of the validators_hash field
    next_validators_hash_proof, \* step.rs: those of the next_validators_hash field
    last_block_id_proof,    \* step.rs: those of the last_block_id field
    round_present,          \* step.rs: whether the votes carry a round
    trusted_next_validators_hash, \* next_validators_hash of the trusted header
    accepted,   \* whether the step circuit is satisfied: "none", "accept", "reject"
    args,       \* the arguments of the function a specification applies
    ret         \* what that function returned

merkleVars == <<items, built, call, result>>
splitVars == <<length, split>>
layerVars == <<entries, enabled_in, current_nodes, current_node_enabled,
               merkle_layer_size, reduced>>

stepInputs == <<validators, header, prev_header, data_hash_proof,
                validator_hash_proof, next_validators_hash_proof,
                last_block_id_proof, round_present, trusted_next_validators_hash>>
stepVars == <<stepInputs, accepted>>

fnVars == <<args, ret>>

vars == <<pc, merkleVars, splitVars, layerVars, stepVars, fnVars>>

-----------------------------------------------------------------------------
(* Bounds of the model *)

\* longest leaf sequence given to proofs_from_byte_slices
MaxLeaves == 5
\* largest total / index of a hand-made Proof
MaxTotal == 4
\* most aunts of a hand-made Proof
MaxAunts == 2
\* largest argument of get_split_point
MaxLength == 70

-----------------------------------------------------------------------------
(* Hashing: src/src/merkle.rs *)

\* Option::None of an Option<Hash>, and an unset Option<Rc<RefCell<ProofNode>>>
None == <<>>

\* Sha256::digest([])
empty_hash == <<"E">>

\* MerkleHash::leaf_hash: SHA256(0x00 || leaf)
leaf_hash(leaf) == <<"L", leaf>>

\* MerkleHash::inner_hash: SHA256(0x01 || left || right)
inner_hash(left, right) == <<"I", left, right>>

\* A 32-byte value that is the hash of nothing in the model
Foreign(k) == <<"X", <<k>>>>

\* floor(log2(n)) for n >= 1: (length as f64).log2() as usize
RECURSIVE Log2Floor(_)
Log2Floor(n) == IF n <= 1 THEN 0 ELSE 1 + Log2Floor(n \div 2)

\* 1 << bitlen
RECURSIVE Shl1(_)
Shl1(bitlen) == IF bitlen = 0 THEN 1 ELSE 2 * Shl1(bitlen - 1)

\* a plausible slip: the split of a power of two is not halved
get_split_point_nohalve(len) ==
    Shl1(Log2Floor(len))

\* get_split_point panics for length < 1
get_split_point_panics(len) == len < 1

\* get_split_point(length), for length >= 1
get_split_point(len) ==
    LET bitlen == Log2Floor(len)
        k == Shl1(bitlen)
    IN  IF k = len THEN k \div 2 ELSE k

-----------------------------------------------------------------------------
(* Proof construction: src/src/merkle.rs *)

\* ProofNode::new(hash, parent, left, right).  A trail is kept as the chain of
\* nodes from a leaf along the parent links; left and right hold the hash of
\* the sibling node they point to (a node's hash never changes once made).
ProofNode(hash, left, right) == [hash |-> hash, left |-> left, right |-> right]

\* the chain with its topmost node (a subtree root) given a right sibling and
\* the new root as parent
SetRight(trail, sibling, root) ==
    [trail EXCEPT ![Len(trail)].right = sibling] \o <<root>>

\* the chain with its topmost node given a left sibling and the new root as parent
SetLeft(trail, sibling, root) ==
    [trail EXCEPT ![Len(trail)].left = sibling] \o <<root>>

\* trails_from_byte_slices(items): [trails, root]
RECURSIVE trails_from_byte_slices(_)
trails_from_byte_slices(its) ==
    IF Len(its) = 0
    THEN [trails |-> <<>>, root |-> ProofNode(empty_hash, None, None)]
    ELSE IF Len(its) = 1
    THEN LET node == ProofNode(leaf_hash(its[1]), None, None)
         IN  [trails |-> << <<node>> >>, root |-> node]
    ELSE LET k == get_split_point(Len(its))
             l == trails_from_byte_slices(SubSeq(its, 1, k))
             r == trails_from_byte_slices(SubSeq(its, k + 1, Len(its)))
             root == ProofNode(inner_hash(l.root.hash, r.root.hash), None, None)
             lefts == [i \in 1..Len(l.trails) |-> SetRight(l.trails[i], r.root.hash, root)]
             rights == [i \in 1..Len(r.trails) |-> SetLeft(r.trails[i], l.root.hash, root)]
         IN  [trails |-> lefts \o rights, root |-> root]

\* ProofNode::flatten_aunts: walk the parent links, pushing the sibling's hash
RECURSIVE flatten_aunts(_)
flatten_aunts(trail) ==
    IF trail = <<>> THEN <<>>
    ELSE LET node == Head(trail)
             pushed == IF node.left # None THEN <<node.left>>
                       ELSE IF node.right # None THEN <<node.right>>
                       ELSE <<>>
         IN  pushed \o flatten_aunts(Tail(trail))

\* Proof::new(total, index, leaf_hash, aunts)
Proof(total, index, lh, aunts) ==
    [total |-> total, index |-> index, leaf_hash |-> lh, aunts |-> aunts]

\* proofs_from_byte_slices(items): [root_hash, proofs]; proofs[i + 1] is the
\* proof of leaf i
proofs_from_byte_slices(its) ==
    LET t == trails_from_byte_slices(its)
    IN  [root_hash |-> t.root.hash,
         proofs |-> [i \in 1..Len(t.trails) |->
                        Proof(Len(its), i - 1, t.trails[i][1].hash,
                              flatten_aunts(t.trails[i]))]]

-----------------------------------------------------------------------------
(* Proof verification: src/src/merkle.rs *)

\* inner_hashes[..inner_hashes.len() - 1]
ButLast(s) == SubSeq(s, 1, Len(s) - 1)

\* inner_hashes[inner_hashes.len() - 1]
\* a variant taking the first hash of the slice instead of the last
Last_first(s) == s[1]

Last(s) == s[Len(s)]

\* a variant that returns the leaf hash although hashes are left over
RECURSIVE compute_hash_from_aunts_leftover(_, _, _, _)
compute_hash_from_aunts_leftover(index, total, lh, inner_hashes) ==
    IF index >= total \/ total = 0 THEN None
    ELSE IF total = 1 THEN lh
    ELSE IF inner_hashes = <<>> THEN None
    ELSE LET num_left == get_split_point(total)
         IN  IF index < num_left
             THEN LET left_hash == compute_hash_from_aunts_leftover(index, num_left, lh,
                                                                    ButLast(inner_hashes))
                  IN  IF left_hash = None THEN None
                      ELSE inner_hash(left_hash, Last(inner_hashes))
             ELSE LET right_hash == compute_hash_from_aunts_leftover(index - num_left,
                                        total - num_left, lh, ButLast(inner_hashes))
                  IN  IF right_hash = None THEN None
                      ELSE inner_hash(Last(inner_hashes), right_hash)

\* the panics compute_hash_from_aunts can meet: the arm for total 0, the
\* panic of get_split_point, an empty slice indexed at its last element and
\* the subtraction index - num_left going below zero
RECURSIVE compute_hash_from_aunts_panics(_, _, _)
compute_hash_from_aunts_panics(index, total, inner_hashes) ==
    IF index >= total \/ total = 0 THEN FALSE
    ELSE IF total = 0 THEN TRUE
    ELSE IF total = 1 THEN FALSE
    ELSE IF inner_hashes = <<>> THEN FALSE
    ELSE IF get_split_point_panics(total) THEN TRUE
    ELSE LET num_left == get_split_point(total)
         IN  IF index < num_left
             THEN \/ Len(inner_hashes) < 1
                  \/ compute_hash_from_aunts_panics(index, num_left,
                                                    ButLast(inner_hashes))
             ELSE \/ index < num_left
                  \/ total < num_left
                  \/ Len(inner_hashes) < 1
                  \/ compute_hash_from_aunts_panics(index - num_left, total - num_left,
                                                    ButLast(inner_hashes))

\* compute_hash_from_aunts(index, total, leaf_hash, inner_hashes): a hash or None
RECURSIVE compute_hash_from_aunts(_, _, _, _)
compute_hash_from_aunts(index, total, lh, inner_hashes) ==
    IF index >= total \/ total = 0 THEN None
    ELSE IF total = 1
    THEN (IF inner_hashes # <<>> THEN None ELSE lh)
    ELSE IF inner_hashes = <<>> THEN None
    ELSE LET num_left == get_split_point(total)
         IN  IF index < num_left
             THEN LET left_hash == compute_hash_from_aunts(index, num_left, lh,
                                                           ButLast(inner_hashes))
                  IN  IF left_hash = None THEN None
                      ELSE inner_hash(left_hash, Last(inner_hashes))
             ELSE LET right_hash == compute_hash_from_aunts(index - num_left,
                                        total - num_left, lh, ButLast(inner_hashes))
                  IN  IF right_hash = None THEN None
                      ELSE inner_hash(Last(inner_hashes), right_hash)

\* Proof::compute_root_hash
compute_root_hash(proof) ==
    compute_hash_from_aunts(proof.index, proof.total, proof.leaf_hash, proof.aunts)

\* a plausible slip: the computed root is never compared with the given root
Proof_verify_noroot(proof, root_hash, leaf) ==
    IF proof.leaf_hash # leaf_hash(leaf) THEN "Err"
    ELSE IF compute_root_hash(proof) = None THEN "Panic"
    ELSE "Ok"

\* Proof::verify(&self, root_hash, leaf): "Ok", "Err", or "Panic" when
\* .expect("failed to compute root hash") meets None
Proof_verify(proof, root_hash, leaf) ==
    IF proof.leaf_hash # leaf_hash(leaf) THEN "Err"
    ELSE LET computed_hash == compute_root_hash(proof)
         IN  IF computed_hash = None THEN "Panic"
             ELSE IF computed_hash # root_hash THEN "Err"
             ELSE "Ok"

-----------------------------------------------------------------------------
(* The Merkle engine exercised: build the proofs of a leaf sequence, then   *)
(* one call of Proof::verify                                                *)

\* value of a variable the running specification does not use
Idle == <<>>

\* the variables of the parts a specification does not exercise
IdleMerkle == items = Idle /\ built = Idle /\ call = Idle /\ result = "none"
IdleSplit == length = 0 /\ split = 0
IdleLayer ==
    /\ entries = Idle /\ enabled_in = Idle /\ current_nodes = Idle
    /\ current_node_enabled = Idle /\ merkle_layer_size = 0 /\ reduced = Idle

IdleStep ==
    /\ validators = Idle /\ header = Idle /\ prev_header = Idle
    /\ data_hash_proof = Idle /\ validator_hash_proof = Idle
    /\ next_validators_hash_proof = Idle /\ last_block_id_proof = Idle
    /\ round_present = FALSE /\ trusted_next_validators_hash = Idle
    /\ accepted = "none"

IdleFn == args = Idle /\ ret = Idle

\* the byte strings leaves are drawn from
LeafBytes == {<<1>>, <<2>>}

\* sequences over S of length lo..hi
SeqsOf(S, lo, hi) == UNION {[1..n -> S] : n \in lo..hi}

\* the arguments of one Proof::verify call; kind records how they were made
VerifyCall(proof, root_hash, leaf, kind) ==
    [proof |-> proof, root_hash |-> root_hash, leaf |-> leaf, kind |-> kind]

\* hashes a caller may put in the place of a genuine one
OtherHashes(proof) ==
    {Foreign(0), built.root_hash} \cup {leaf_hash(b) : b \in LeafBytes}
        \cup {proof.aunts[j] : j \in 1..Len(proof.aunts)}

InitMerkle ==
    /\ pc = "start"
    /\ items \in SeqsOf(LeafBytes, 0, MaxLeaves)
    /\ built = Idle
    /\ call = Idle
    /\ result = "none"
    /\ IdleSplit
    /\ IdleLayer
    /\ IdleStep
    /\ IdleFn

\* let (root_hash, proofs) = proofs_from_byte_slices(items)
Build ==
    /\ pc = "start"
    /\ built' = proofs_from_byte_slices(items)
    /\ pc' = "built"
    /\ UNCHANGED <<items, call, result, splitVars, layerVars, stepVars, fnVars>>

\* the call proof.verify(root_hash, leaf) and its outcome
DoVerify(c) ==
    /\ call' = c
    /\ result' = Proof_verify(c.proof, c.root_hash, c.leaf)
    /\ pc' = "verified"
    /\ UNCHANGED <<items, built, splitVars, layerVars, stepVars, fnVars>>

\* proofs[i].verify(&root_hash, &items[i])
VerifyOwn ==
    /\ pc = "built"
    /\ \E i \in 1..Len(items) :
          DoVerify(VerifyCall(built.proofs[i], built.root_hash, items[i], "own"))

\* proofs[i].verify(&root_hash, leaf) with other leaf bytes
VerifyOtherLeaf ==
    /\ pc = "built"
    /\ \E i \in 1..Len(items) : \E leaf \in (LeafBytes \cup {<<3>>}) \ {items[i]} :
          DoVerify(VerifyCall(built.proofs[i], built.root_hash, leaf, "leaf"))

\* proofs[i].verify(root, &items[i]) with another root
VerifyOtherRoot ==
    /\ pc = "built"
    /\ \E i \in 1..Len(items) :
          \E root \in OtherHashes(built.proofs[i]) \ {built.root_hash} :
             DoVerify(VerifyCall(built.proofs[i], root, items[i], "root"))

\* verify with one aunt of proofs[i] replaced by another hash
VerifyOtherAunt ==
    /\ pc = "built"
    /\ \E i \in 1..Len(items) : \E j \in 1..Len(built.proofs[i].aunts) :
          \E h \in OtherHashes(built.proofs[i]) \ {built.proofs[i].aunts[j]} :
             DoVerify(VerifyCall([built.proofs[i] EXCEPT !.aunts[j] = h],
                                 built.root_hash, items[i], "aunt"))

\* verify on a Proof value made by hand (its fields are public): any total, any
\* index, any number of aunts
VerifyAny ==
    /\ pc = "built"
    /\ Len(items) >= 1
    /\ \E total \in 0..MaxTotal, index \in 0..MaxTotal :
          \E aunts \in SeqsOf({Foreign(0), leaf_hash(<<2>>)}, 0, MaxAunts) :
             \E lh \in {leaf_hash(items[1]), Foreign(1)} :
                DoVerify(VerifyCall(Proof(total, index, lh, aunts),
                                    built.root_hash, items[1], "any"))

NextMerkle ==
    \/ Build
    \/ VerifyOwn
    \/ VerifyOtherLeaf
    \/ VerifyOtherRoot
    \/ VerifyOtherAunt
    \/ VerifyAny

SpecMerkle == InitMerkle /\ [][NextMerkle]_vars

\* C1: for every non-empty leaf sequence and every index below its length, the
\* proof that proofs_from_byte_slices returns for that leaf verifies against the
\* root of the same call, also when the leaf count is not a power of two.
C1_OwnProofVerifies ==
    (pc = "verified" /\ call.kind = "own") => result = "Ok"

\* a proof of the last of three leaves (not a power of two) was verified
C1_Witness ==
    /\ pc = "verified"
    /\ call.kind = "own"
    /\ call.proof.total = 3
    /\ call.proof.index = 2
    /\ result = "Ok"

\* C2: with collision-free hashes, a proof from proofs_from_byte_slices does not
\* verify once the leaf bytes, the root, or any single aunt is replaced by a
\* different value.
C2_ChangedInputRejected ==
    (pc = "verified" /\ call.kind \in {"leaf", "root", "aunt"}) => result # "Ok"

\* a proof with two aunts had one aunt replaced and was refused
C2_Witness ==
    /\ pc = "verified"
    /\ call.kind = "aunt"
    /\ Len(call.proof.aunts) = 2
    /\ result = "Err"

\* C6: Proof::verify returns Ok or Err for every proof value, every root and
\* every leaf; it never panics.
C6_VerifyNeverPanics ==
    pc = "verified" => result \in {"Ok", "Err"}

-----------------------------------------------------------------------------
(* get_split_point exercised on its own *)

InitSplit ==
    /\ pc = "split_start"
    /\ length \in 0..MaxLength
    /\ split = 0
    /\ IdleMerkle
    /\ IdleLayer
    /\ IdleStep
    /\ IdleFn

\* let k = get_split_point(length)
GetSplitPoint ==
    /\ pc = "split_start"
    /\ IF get_split_point_panics(length)
       THEN pc' = "split_panic" /\ split' = split
       ELSE pc' = "split_done" /\ split' = get_split_point(length)
    /\ UNCHANGED <<merkleVars, length, layerVars, stepVars, fnVars>>

NextSplit == GetSplitPoint

SpecSplit == InitSplit /\ [][NextSplit]_vars

\* x is a power of two
RECURSIVE IsPowerOfTwo(_)
IsPowerOfTwo(x) == x >= 1 /\ (x = 1 \/ (x % 2 = 0 /\ IsPowerOfTwo(x \div 2)))

\* C7: for every n > 1, get_split_point(n) is a power of two, lies strictly
\* between 0 and n, is the largest power of two strictly below n, and equals
\* n/2 whenever n is itself a power of two.
C7_SplitPoint ==
    (pc = "split_done" /\ length > 1) =>
        /\ IsPowerOfTwo(split)
        /\ 0 < split /\ split < length
        /\ \A p \in 1..(length - 1) : IsPowerOfTwo(p) => p <= split
        /\ IsPowerOfTwo(length) => 2 * split = length

\* the split point of a power of two and of a number that is none were computed
C7_Witness ==
    /\ pc = "split_done"
    /\ length \in {16, 13}
    /\ split = 8

-----------------------------------------------------------------------------
(* The enable-bit layer reduction: src/src/validator.rs (hash_merkle_layer, *)
(* hash_validator_set) and src/src/commitment.rs (hash_merkle_layer,        *)
(* get_data_commitment).  Vectors are functions over 0..len-1.              *)

\* deepest tree of the reduction: capacities are 2^0 .. 2^MaxDepth
MaxDepth == 3

\* TendermintHashTarget([self._false(); HASH_SIZE_BITS]): the all-zero hash
zero_hash == <<"Z">>

\* a plausible slip: every pair is hashed, whatever its enabled flags
ParentHash_always(both_nodes_enabled, inner, left) == inner

\* select(both_nodes_enabled, inner_hash, merkle_hashes[i])
ParentHash(both_nodes_enabled, inner, left) ==
    IF both_nodes_enabled THEN inner ELSE left

\* a variant with the two arms of the select exchanged
ParentEnabled_exchanged(both_nodes_disabled) ==
    IF both_nodes_disabled THEN TRUE ELSE FALSE

\* a variant marking every parent enabled
ParentEnabled_always(both_nodes_disabled) == TRUE

\* select(both_nodes_disabled, zero, one)
ParentEnabled(both_nodes_disabled) ==
    IF both_nodes_disabled THEN FALSE ELSE TRUE

\* the loop of hash_merkle_layer from pair i on: the vectors are updated in place
RECURSIVE hash_merkle_layer_from(_, _, _, _)
hash_merkle_layer_from(merkle_hashes, merkle_hash_enabled, i, num_hashes) ==
    IF i >= num_hashes
    THEN [hashes |-> merkle_hashes, enabled |-> merkle_hash_enabled]
    ELSE LET both_nodes_enabled == merkle_hash_enabled[i] /\ merkle_hash_enabled[i + 1]
             first_node_disabled == ~merkle_hash_enabled[i]
             second_node_disabled == ~merkle_hash_enabled[i + 1]
             both_nodes_disabled == first_node_disabled /\ second_node_disabled
             inner == inner_hash(merkle_hashes[i], merkle_hashes[i + 1])
         IN  hash_merkle_layer_from(
                 [merkle_hashes EXCEPT
                     ![i \div 2] = ParentHash(both_nodes_enabled, inner, merkle_hashes[i])],
                 [merkle_hash_enabled EXCEPT
                     ![i \div 2] = ParentEnabled(both_nodes_disabled)],
                 i + 2, num_hashes)

\* a variant whose loop takes the pairs from the last one down to the first
RECURSIVE hash_merkle_layer_down_from(_, _, _)
hash_merkle_layer_down_from(merkle_hashes, merkle_hash_enabled, i) ==
    IF i < 0
    THEN [hashes |-> merkle_hashes, enabled |-> merkle_hash_enabled]
    ELSE LET both_nodes_enabled == merkle_hash_enabled[i] /\ merkle_hash_enabled[i + 1]
             both_nodes_disabled == ~merkle_hash_enabled[i] /\ ~merkle_hash_enabled[i + 1]
             inner == inner_hash(merkle_hashes[i], merkle_hashes[i + 1])
         IN  hash_merkle_layer_down_from(
                 [merkle_hashes EXCEPT
                     ![i \div 2] = ParentHash(both_nodes_enabled, inner, merkle_hashes[i])],
                 [merkle_hash_enabled EXCEPT
                     ![i \div 2] = ParentEnabled(both_nodes_disabled)],
                 i - 2)

hash_merkle_layer_downwards(merkle_hashes, merkle_hash_enabled, num_hashes) ==
    hash_merkle_layer_down_from(merkle_hashes, merkle_hash_enabled, num_hashes - 2)

\* the iterations of the loop of hash_merkle_layer: (0..num_hashes).step_by(2)
layer_iterations(num_hashes) == {i \in 0..(num_hashes - 1) : i % 2 = 0}

\* the slots an iteration reads and the slot it then writes
iteration_reads(i) == {i, i + 1}
iteration_writes(i) == i \div 2

\* hash_merkle_layer(merkle_hashes, merkle_hash_enabled, num_hashes):
\* for i in (0..num_hashes).step_by(2)
hash_merkle_layer(merkle_hashes, merkle_hash_enabled, num_hashes) ==
    hash_merkle_layer_from(merkle_hashes, merkle_hash_enabled, 0, num_hashes)

\* while merkle_layer_size > 1 { hash_merkle_layer(..); merkle_layer_size /= 2 }
\* and the root current_nodes[0]
RECURSIVE reduce_layers(_, _, _)
reduce_layers(hashes, enabled, layer_size) ==
    IF layer_size > 1
    THEN LET next == hash_merkle_layer(hashes, enabled, layer_size)
         IN  reduce_layers(next.hashes, next.enabled, layer_size \div 2)
    ELSE hashes[0]

\* hash_validator_leaf(validator, validator_byte_length): the leaf hash of the
\* first validator_byte_length bytes of the marshalled validator
hash_validator_leaf(validator, validator_byte_length) ==
    leaf_hash(SubSeq(validator, 1, validator_byte_length))

\* hash_validator_leaves(validators, validator_byte_lengths)
hash_validator_leaves(marshalled, validator_byte_lengths) ==
    [i \in DOMAIN marshalled |->
        hash_validator_leaf(marshalled[i], validator_byte_lengths[i])]

\* hash_validator_set(validators, validator_byte_lengths, validator_enabled)
hash_validator_set(marshalled, validator_byte_lengths, validator_enabled) ==
    reduce_layers(hash_validator_leaves(marshalled, validator_byte_lengths),
                  validator_enabled, Cardinality(DOMAIN marshalled))

\* the leaves and flags get_data_commitment builds: the first WINDOW_RANGE
\* slots hold the leaf hash of a data root tuple and are enabled, the others
\* hold the zero hash and are disabled
commitment_leaves(tuples, WINDOW_RANGE, NUM_LEAVES) ==
    [i \in 0..(NUM_LEAVES - 1) |->
        IF i < WINDOW_RANGE THEN leaf_hash(tuples[i]) ELSE zero_hash]

commitment_leaf_enabled(WINDOW_RANGE, NUM_LEAVES) ==
    [i \in 0..(NUM_LEAVES - 1) |-> i < WINDOW_RANGE]

\* a variant whose loop writes no leaf outside the vector
get_data_commitment_panics_never(WINDOW_RANGE, NUM_LEAVES) == FALSE

\* whether the loop of get_data_commitment writes leaves[i] for an i outside
\* the NUM_LEAVES leaves, which panics
get_data_commitment_panics(WINDOW_RANGE, NUM_LEAVES) ==
    \E i \in 0..(WINDOW_RANGE - 1) : i >= NUM_LEAVES

\* get_data_commitment::<WINDOW_RANGE, NUM_LEAVES>(data_hashes, block_heights),
\* on the encoded data root tuples
get_data_commitment(tuples, WINDOW_RANGE, NUM_LEAVES) ==
    reduce_layers(commitment_leaves(tuples, WINDOW_RANGE, NUM_LEAVES),
                  commitment_leaf_enabled(WINDOW_RANGE, NUM_LEAVES), NUM_LEAVES)

-----------------------------------------------------------------------------
(* The reduction exercised layer by layer *)

\* the capacities: powers of two up to 2^MaxDepth
Capacities == {Shl1(d) : d \in 0..MaxDepth}

\* the bytes of slot i: a real entry, or a padding entry of one of two kinds
RealBytes(i) == <<i + 1>>
PadBytes(i, same) == IF same THEN <<0>> ELSE <<100 + i>>

\* slots whose first n entries are real and whose others are padding
SlotBytes(n, cap, same) ==
    [i \in 0..(cap - 1) |-> IF i < n THEN RealBytes(i) ELSE PadBytes(i, same)]

\* the flags with the first n set, and the flag of slot flip (if any) inverted
SlotFlags(n, cap, flip) ==
    [i \in 0..(cap - 1) |-> IF i = flip THEN ~(i < n) ELSE i < n]

\* the byte length of every slot's entry
ByteLengths(slots) == [i \in DOMAIN slots |-> Len(slots[i])]

\* the number of enabled slots
NumEnabled(flags) == Cardinality({i \in DOMAIN flags : flags[i]})

\* no enabled slot follows a disabled one
IsPrefix(flags) == \A i \in DOMAIN flags : flags[i] <=> i < NumEnabled(flags)

InitLayer ==
    /\ pc = "layer_start"
    /\ \E cap \in Capacities, same \in BOOLEAN :
          \E n \in 0..cap, flip \in -1..(cap - 1) :
             /\ entries = SlotBytes(n, cap, same)
             /\ enabled_in = SlotFlags(n, cap, flip)
    /\ current_nodes = Idle
    /\ current_node_enabled = Idle
    /\ merkle_layer_size = 0
    /\ reduced = Idle
    /\ IdleMerkle
    /\ IdleSplit
    /\ IdleStep
    /\ IdleFn

\* hash_validator_set up to the loop: the leaves are the validators' leaf hashes
LoadValidators ==
    /\ pc = "layer_start"
    /\ current_nodes' = hash_validator_leaves(entries, ByteLengths(entries))
    /\ current_node_enabled' = enabled_in
    /\ merkle_layer_size' = Cardinality(DOMAIN entries)
    /\ pc' = "layers"
    /\ UNCHANGED <<entries, enabled_in, reduced, merkleVars, splitVars, stepVars, fnVars>>

\* get_data_commitment up to the loop: WINDOW_RANGE is the number of enabled
\* slots, which lead
LoadDataCommitment ==
    /\ pc = "layer_start"
    /\ IsPrefix(enabled_in)
    /\ current_nodes' = commitment_leaves(entries, NumEnabled(enabled_in),
                                          Cardinality(DOMAIN entries))
    /\ current_node_enabled' = commitment_leaf_enabled(NumEnabled(enabled_in),
                                          Cardinality(DOMAIN entries))
    /\ merkle_layer_size' = Cardinality(DOMAIN entries)
    /\ pc' = "layers"
    /\ UNCHANGED <<entries, enabled_in, reduced, merkleVars, splitVars, stepVars, fnVars>>

\* one round of the loop: hash_merkle_layer, then merkle_layer_size /= 2
HashLayer ==
    /\ pc = "layers"
    /\ merkle_layer_size > 1
    /\ LET next == hash_merkle_layer(current_nodes, current_node_enabled,
                                     merkle_layer_size)
       IN  /\ current_nodes' = next.hashes
           /\ current_node_enabled' = next.enabled
    /\ merkle_layer_size' = merkle_layer_size \div 2
    /\ UNCHANGED <<pc, entries, enabled_in, reduced, merkleVars, splitVars, stepVars, fnVars>>

\* the loop is left: current_nodes[0] is returned
ReturnRoot ==
    /\ pc = "layers"
    /\ ~(merkle_layer_size > 1)
    /\ reduced' = current_nodes[0]
    /\ pc' = "layer_done"
    /\ UNCHANGED <<entries, enabled_in, current_nodes, current_node_enabled,
                   merkle_layer_size, merkleVars, splitVars, stepVars, fnVars>>

NextLayer ==
    \/ LoadValidators
    \/ LoadDataCommitment
    \/ HashLayer
    \/ ReturnRoot

SpecLayer == InitLayer /\ [][NextLayer]_vars

\* the flags the reduction started from lead, and at least one is set
LeadingEnabled == IsPrefix(enabled_in) /\ NumEnabled(enabled_in) >= 1

\* the bytes of the enabled leading slots, as a sequence
EnabledBytes == [k \in 1..NumEnabled(enabled_in) |-> entries[k - 1]]

\* C8: hash_merkle_layer computes each parent from its pair of children: both
\* enabled: inner_hash(left, right), enabled; exactly one enabled, left or
\* right: the enabled child's hash, enabled; none enabled: disabled.
C8_LayerRule ==
    [][(pc = "layers" /\ merkle_layer_size' # merkle_layer_size) =>
        \A p \in 0..((merkle_layer_size \div 2) - 1) :
            LET left == current_nodes[2 * p]
                right == current_nodes[2 * p + 1]
                left_enabled == current_node_enabled[2 * p]
                right_enabled == current_node_enabled[2 * p + 1]
            IN  /\ (left_enabled /\ right_enabled) =>
                      /\ current_nodes'[p] = inner_hash(left, right)
                      /\ current_node_enabled'[p]
                /\ (left_enabled /\ ~right_enabled) =>
                      /\ current_nodes'[p] = left
                      /\ current_node_enabled'[p]
                /\ (~left_enabled /\ right_enabled) =>
                      /\ current_nodes'[p] = right
                      /\ current_node_enabled'[p]
                /\ (~left_enabled /\ ~right_enabled) =>
                      ~current_node_enabled'[p]]_vars

\* C9: for a power-of-two capacity N and 1 <= n <= N, with exactly the first n
\* slots enabled, the layer-by-layer reduction returns the root of the
\* split-point Merkle tree (trails_from_byte_slices) over those n leaves alone.
C9_ReductionIsSimpleTree ==
    (pc = "layer_done" /\ LeadingEnabled) =>
        reduced = trails_from_byte_slices(EnabledBytes).root.hash

\* five leading entries were reduced in a capacity of eight
C9_Witness ==
    /\ pc = "layer_done"
    /\ LeadingEnabled
    /\ NumEnabled(enabled_in) = 5
    /\ Cardinality(DOMAIN entries) = 8
    /\ reduced = trails_from_byte_slices(EnabledBytes).root.hash

\* the capacities a reduction of capacity cap is compared with: the larger
\* powers of two up to 2^(MaxDepth + 1)
LargerCapacities(cap) == {Shl1(d) : d \in 0..(MaxDepth + 1)} \ (1..cap)

\* the n leading entries in a capacity of cap2, with padding of either kind behind
Repadded(n, cap2, same) ==
    [i \in 0..(cap2 - 1) |-> IF i < n THEN entries[i] ELSE PadBytes(i, same)]

\* C10: for the same n >= 1 enabled leading leaves, the reduction with
\* capacity N and with any larger power-of-two capacity gives the same root,
\* whatever the disabled slots hold.
C10_RootIgnoresPadding ==
    (pc = "layer_done" /\ LeadingEnabled) =>
        LET n == NumEnabled(enabled_in)
        IN  \A cap2 \in LargerCapacities(Cardinality(DOMAIN entries)) :
               /\ \A same \in BOOLEAN :
                     hash_validator_set(Repadded(n, cap2, same),
                                        ByteLengths(Repadded(n, cap2, same)),
                                        SlotFlags(n, cap2, -1)) = reduced
               /\ get_data_commitment(Repadded(n, cap2, TRUE), n, cap2) = reduced

\* three leading entries were reduced in a capacity of four with padding behind
C10_Witness ==
    /\ pc = "layer_done"
    /\ LeadingEnabled
    /\ NumEnabled(enabled_in) = 3
    /\ Cardinality(DOMAIN entries) = 4
    /\ hash_validator_set(Repadded(3, 8, FALSE), ByteLengths(Repadded(3, 8, FALSE)),
                          SlotFlags(3, 8, -1)) = reduced

-----------------------------------------------------------------------------
(* Voting power: src/src/validator.rs. An I64Target is a pair of limbs      *)
(* <<low, high>>; a limb holds LimbBits bits here where the code's          *)
(* U32Target holds 32.                                                      *)

\* the width of a limb
LimbBits == 3

\* the number of validator slots of the circuit
VALIDATOR_SET_SIZE_MAX == 4

\* the largest voting power a slot is given
MaxPower == 2

\* the largest tree whose leaves get path indices
MaxPathTotal == 14

\* the first value a limb cannot hold
LimbBase == Shl1(LimbBits)

\* the limbs of a value below LimbBase^2
I64(v) == <<v % LimbBase, v \div LimbBase>>

\* the value of two limbs
I64Value(a) == a[1] + LimbBase * a[2]

\* (low, high) of x * y + z, as mul_add_u32 returns it
mul_add_u32(x, y, z) == <<(x * y + z) % LimbBase, (x * y + z) \div LimbBase>>

\* (low, high) of x + y, as add_u32 returns it
add_u32(x, y) == <<(x + y) % LimbBase, (x + y) \div LimbBase>>

\* (low, high) of x * y, as mul_u32 returns it
mul_u32(x, y) == <<(x * y) % LimbBase, (x * y) \div LimbBase>>

\* (result, borrow) of x - y, as sub_u32 returns it
sub_u32(x, y) == IF x >= y THEN <<x - y, 0>> ELSE <<x - y + LimbBase, 1>>

\* the sum of limb k of the first n voting powers
RECURSIVE SumLimb(_, _, _)
SumLimb(validator_voting_power, k, n) ==
    IF n = 0 THEN 0
    ELSE validator_voting_power[n - 1][k] + SumLimb(validator_voting_power, k, n - 1)

\* (low, high) of the sum of limb k of every slot, as add_many_u32 returns it
add_many_u32(validator_voting_power, k) ==
    LET sum == SumLimb(validator_voting_power, k, VALIDATOR_SET_SIZE_MAX)
    IN  <<sum % LimbBase, sum \div LimbBase>>

\* get_total_voting_power: the sum over all slots, and whether its two
\* assert_zero_u32 hold
get_total_voting_power(validator_voting_power) ==
    LET sum_lower == add_many_u32(validator_voting_power, 1)
        sum_upper == add_many_u32(validator_voting_power, 2)
        carry_sum == add_u32(sum_lower[2], sum_upper[1])
    IN  [value |-> <<sum_lower[1], carry_sum[1]>>,
         ok |-> sum_upper[2] = 0 /\ carry_sum[2] = 0]

\* a variant without the two assert_zero_u32: the product wraps
mul_i64_by_u32_wrapping(a, b) ==
    LET lower == mul_u32(a[1], b)
        upper == mul_u32(a[2], b)
        upper_sum == add_u32(upper[1], lower[2])
    IN  [value |-> <<lower[1], upper_sum[1]>>, ok |-> TRUE]

\* mul_i64_by_u32(a, b), and whether its two assert_zero_u32 hold
mul_i64_by_u32(a, b) ==
    LET lower == mul_u32(a[1], b)
        upper == mul_u32(a[2], b)
        upper_sum == add_u32(upper[1], lower[2])
    IN  [value |-> <<lower[1], upper_sum[1]>>,
         ok |-> upper[2] = 0 /\ upper_sum[2] = 0]

\* a variant that takes every comparison to pass
is_i64_gte_always(a, b) == TRUE

\* is_i64_gte(a, b): a >= b
is_i64_gte(a, b) ==
    LET high == sub_u32(a[2], b[2])
        no_underflow_high == high[2] = 0
        upper_equal == high[1] = 0
        upper_not_equal == ~upper_equal
        low == sub_u32(a[1], b[1])
        no_underflow_low == low[2] = 0
        upper_pass == upper_not_equal /\ no_underflow_high
        lower_pass == upper_equal /\ no_underflow_low
    IN  upper_pass \/ lower_pass

\* voting_power_greater_than_threshold
voting_power_greater_than_threshold(accumulated_power, total_voting_power, threshold_numerator, threshold_denominator) ==
    LET scaled_accumulated_vp == mul_i64_by_u32(accumulated_power, threshold_denominator)
        scaled_total_vp == mul_i64_by_u32(total_voting_power, threshold_numerator)
    IN  [value |-> is_i64_gte(scaled_accumulated_vp.value, scaled_total_vp.value),
         ok |-> scaled_accumulated_vp.ok /\ scaled_total_vp.ok]

\* a variant of the loop without its two assert_zero_u32: the sum wraps
RECURSIVE accumulate_voting_power_wrapping(_, _, _, _)
accumulate_voting_power_wrapping(validator_voting_power, validator_enabled, i, acc) ==
    IF i >= VALIDATOR_SET_SIZE_MAX THEN acc
    ELSE LET voting_power == validator_voting_power[i]
             enabled == validator_enabled[i]
             sum_lower == mul_add_u32(voting_power[1], enabled, acc.value[1])
             carry_sum == add_u32(sum_lower[2], voting_power[2])
             sum_upper == mul_add_u32(carry_sum[1], enabled, acc.value[2])
         IN  accumulate_voting_power_wrapping(validator_voting_power, validator_enabled, i + 1,
                 [value |-> <<sum_lower[1], sum_upper[1]>>, ok |-> acc.ok])

\* the loop of check_voting_power from slot i on
RECURSIVE accumulate_voting_power(_, _, _, _)
accumulate_voting_power(validator_voting_power, validator_enabled, i, acc) ==
    IF i >= VALIDATOR_SET_SIZE_MAX THEN acc
    ELSE LET voting_power == validator_voting_power[i]
             enabled == validator_enabled[i]
             sum_lower == mul_add_u32(voting_power[1], enabled, acc.value[1])
             carry_sum == add_u32(sum_lower[2], voting_power[2])
             sum_upper == mul_add_u32(carry_sum[1], enabled, acc.value[2])
         IN  accumulate_voting_power(validator_voting_power, validator_enabled, i + 1,
                 [value |-> <<sum_lower[1], sum_upper[1]>>,
                  ok |-> acc.ok /\ carry_sum[2] = 0 /\ sum_upper[2] = 0])

\* check_voting_power
check_voting_power(validator_voting_power, validator_enabled, total_voting_power, threshold_numerator, threshold_denominator) ==
    LET accumulated_voting_power ==
            accumulate_voting_power(validator_voting_power, validator_enabled, 0,
                                    [value |-> <<0, 0>>, ok |-> TRUE])
        above == voting_power_greater_than_threshold(
                     accumulated_voting_power.value, total_voting_power,
                     threshold_numerator, threshold_denominator)
    IN  [value |-> above.value, ok |-> accumulated_voting_power.ok /\ above.ok]

-----------------------------------------------------------------------------
(* Marshalling, header field proofs and messages: src/src/validator.rs,     *)
(* src/src/commitment.rs, src/src/step.rs. A hash occupies one position of  *)
(* a byte string.                                                           *)

\* the number of bytes of a marshalled voting power
VOTING_POWER_BYTES_LENGTH_MAX == 9

\* the first n septets (7-bit groups) of v, lowest first
RECURSIVE Septets(_, _)
Septets(v, n) == IF n = 0 THEN <<>> ELSE <<v % 128>> \o Septets(v \div 128, n - 1)

\* a variant that finds no non-zero septet
last_seen_non_zero_septet_idx_none(septets) == 0

\* the index of the last non-zero septet, 0 when there is none
last_seen_non_zero_septet_idx(septets) ==
    LET nonzero == {i \in 0..(Len(septets) - 1) : septets[i + 1] # 0}
    IN  IF nonzero = {} THEN 0 ELSE CHOOSE i \in nonzero : \A j \in nonzero : j <= i

\* the n low bits of x, lowest first
RECURSIVE bits_le(_, _)
bits_le(x, n) == IF n = 0 THEN <<>> ELSE <<x % 2>> \o bits_le(x \div 2, n - 1)

\* the number of bits u32_to_bits_le yields for a limb
U32_BITS == 32

\* u32_to_bits_le(x)
u32_to_bits_le(x) == bits_le(x, U32_BITS)

\* voting_power_bits of marshal_int64_varint: the bits of the low limb, then
\* those of the high limb
voting_power_bits_of(voting_power) ==
    u32_to_bits_le(voting_power[1]) \o u32_to_bits_le(voting_power[2])

\* the septet i (from 0) of the bits: bit j has weight 2^j
septet_of(voting_power_bits, i) ==
    voting_power_bits[i * 7 + 1] + 2 * voting_power_bits[i * 7 + 2]
    + 4 * voting_power_bits[i * 7 + 3] + 8 * voting_power_bits[i * 7 + 4]
    + 16 * voting_power_bits[i * 7 + 5] + 32 * voting_power_bits[i * 7 + 6]
    + 64 * voting_power_bits[i * 7 + 7]

\* the buffer of marshal_int64_varint, byte by byte, from voting_power_bits:
\* every septet in a byte of its own, the top bit set in the bytes below the
\* last non-zero septet
marshal_voting_power_bits(voting_power_bits) ==
    LET septets == [i \in 1..VOTING_POWER_BYTES_LENGTH_MAX |-> septet_of(voting_power_bits, i - 1)]
        last == last_seen_non_zero_septet_idx(septets)
    IN  [i \in 1..VOTING_POWER_BYTES_LENGTH_MAX |->
            septets[i] + (IF i - 1 < last THEN 128 ELSE 0)]

\* the assert_zero of marshal_int64_varint on the top bit of voting_power_bits
voting_power_msb_zero(voting_power_bits) ==
    voting_power_bits[Len(voting_power_bits)] = 0

\* marshal_int64_varint(voting_power)
marshal_int64_varint(voting_power) ==
    marshal_voting_power_bits(voting_power_bits_of(voting_power))

\* marshal_int64_varint asserts that the top bit of the voting power is zero
marshal_int64_varint_ok(voting_power) ==
    voting_power_msb_zero(voting_power_bits_of(voting_power))

\* the number of bytes of a public key
PUBKEY_BYTES_LEN == 32

\* a variant that writes the byte 16 before the public key
marshal_validator_bytes_misplaced(pubkey, voting_power_bytes) ==
    <<10, 34, 10, 32>> \o <<16>> \o pubkey \o voting_power_bytes

\* the buffer of marshal_tendermint_validator for a public key given by its
\* bytes and a voting power already marshalled
marshal_validator_bytes(pubkey, voting_power_bytes) ==
    <<10, 34, 10, 32>> \o pubkey \o <<16>> \o voting_power_bytes

\* marshal_tendermint_validator(pubkey, voting_power)
marshal_tendermint_validator(pubkey, voting_power) ==
    marshal_validator_bytes(pubkey, marshal_int64_varint(voting_power))

\* the length of the marshalled validator up to its last varint byte, as
\* generate_step_inputs takes it from the validator's hash_bytes
validator_byte_length_of(pubkey, voting_power) ==
    LET septets == Septets(I64Value(voting_power), VOTING_POWER_BYTES_LENGTH_MAX)
    IN  Len(<<10, 34, 10, 32>> \o pubkey \o <<16>>) + last_seen_non_zero_septet_idx(septets) + 1

\* the protobuf encoding of a hash field: 0x0a 0x20 and the hash
encode_hash(hash) == <<10, 32, hash>>

\* the protobuf encoding of a block id: the encoded hash and the part set header
encode_block_id(hash) == <<10, 32, hash, 18>>

\* extract_hash_from_protobuf::<HASH_START_BYTE, _>(enc_leaf): the hash that
\* starts at byte 2 of the encoded leaf
extract_hash_from_protobuf(enc_leaf) == enc_leaf[3]

\* get_root_from_merkle_proof(aunts, path_indices, leaf_hash): the hash so far
\* is the right child where the path index is set, the left child otherwise
RECURSIVE get_root_from_merkle_proof(_, _, _)
get_root_from_merkle_proof(aunts, path_indices, hash_so_far) ==
    IF aunts = <<>> THEN hash_so_far
    ELSE LET aunt == Head(aunts)
             path_index == Head(path_indices)
             left_hash_pair == inner_hash(hash_so_far, aunt)
             right_hash_pair == inner_hash(aunt, hash_so_far)
         IN  get_root_from_merkle_proof(Tail(aunts), Tail(path_indices),
                 IF path_index THEN right_hash_pair ELSE left_hash_pair)

\* a variant that puts the bit of the topmost level first
RECURSIVE path_indices_from_top_first(_, _)
path_indices_from_top_first(current_index, current_total) ==
    IF current_total >= 1
    THEN path_indices_from_top_first(current_index \div 2, current_total \div 2)
         \o <<current_index % 2 = 1>>
    ELSE <<>>

\* the loop of get_path_indices: one bit per halving of current_total
RECURSIVE path_indices_from(_, _)
path_indices_from(current_index, current_total) ==
    IF current_total >= 1
    THEN <<current_index % 2 = 1>>
         \o path_indices_from(current_index \div 2, current_total \div 2)
    ELSE <<>>

\* get_path_indices(index, total), for total >= 1
get_path_indices(index, total) == path_indices_from(index, total - 1)

\* the paths step hard-codes for the four header fields
data_hash_path == <<FALSE, TRUE, TRUE, FALSE>>
val_hash_path == <<TRUE, TRUE, TRUE, FALSE>>
next_val_hash_path == <<FALSE, FALSE, FALSE, TRUE>>
last_block_id_path == <<FALSE, FALSE, TRUE, FALSE>>

\* a validator's message: the 32 bytes at offset 16 and those at offset 25
Message(at16, at25) == [at16 |-> at16, at25 |-> at25]

\* the number of bytes of a hash
HASH_SIZE == 32

\* the number of bytes of a validator's message
VALIDATOR_MESSAGE_BYTES_LENGTH_MAX == 124

\* the byte offset of the header hash in a message without a round
missing_round_start_idx == 16

\* the byte offset of the header hash in a message with a round
including_round_start_idx == 25

\* the two windows of a message given by its bytes (bytes[1] is byte 0)
MessageBytes(bytes) ==
    Message(SubSeq(bytes, missing_round_start_idx + 1, missing_round_start_idx + HASH_SIZE),
            SubSeq(bytes, including_round_start_idx + 1, including_round_start_idx + HASH_SIZE))

\* a variant that reads the offset of the opposite round flag
verify_hash_in_message_swapped(message, header_hash, round_present_in_message) ==
    IF round_present_in_message
    THEN header_hash = message.at16
    ELSE header_hash = message.at25

\* a variant that takes the header hash at either offset
verify_hash_in_message_either(message, header_hash, round_present_in_message) ==
    header_hash = message.at16 \/ header_hash = message.at25

\* verify_hash_in_message(message, header, round_present): whether the header
\* hash is in the message at offset 25 when the round is present and at
\* offset 16 when it is missing
verify_hash_in_message(message, header_hash, round_present_in_message) ==
    LET round_missing_eq == header_hash = message.at16
        round_present_eq == header_hash = message.at25
    IN  IF round_present_in_message THEN round_present_eq ELSE round_missing_eq

\* verify_signatures(validators_signed, messages, .., signatures, pubkeys):
\* the signature of every signed validator is valid for its message and key
verify_signatures(validators_signed, sig_valid) ==
    \A i \in DOMAIN validators_signed : validators_signed[i] => sig_valid[i]

-----------------------------------------------------------------------------
(* The step circuit: src/src/step.rs                                        *)

Slots == 0..(VALIDATOR_SET_SIZE_MAX - 1)

\* an inclusion proof: the encoded leaf, the path supplied with it and its aunts
InclusionProof(enc_leaf, path, proof) == [enc_leaf |-> enc_leaf, path |-> path, proof |-> proof]

\* a validator slot of the circuit
ValidatorTarget(pubkey, voting_power, validator_byte_length, enabled, signed, message, sig_valid) ==
    [pubkey |-> pubkey, voting_power |-> voting_power,
     validator_byte_length |-> validator_byte_length,
     enabled |-> enabled, signed |-> signed,
     message |-> message, sig_valid |-> sig_valid]

\* the validator-set hash step computes from the slots vals
validators_hash_target(vals) ==
    hash_validator_set(
        [i \in Slots |-> marshal_tendermint_validator(vals[i].pubkey, vals[i].voting_power)],
        [i \in Slots |-> vals[i].validator_byte_length],
        [i \in Slots |-> vals[i].enabled])

\* a variant that leaves prev_header unconstrained
prev_header_connected_never(prev_hdr, enc_leaf) == TRUE

\* the last constraint of step: prev_header is connected to the hash
\* extracted from the encoded last_block_id leaf
prev_header_connected(prev_hdr, enc_leaf) ==
    prev_hdr = extract_hash_from_protobuf(enc_leaf)

\* step: whether every constraint of the circuit is satisfied by the inputs
step(vals, hdr, prev_hdr, data_proof, val_proof, next_val_proof, block_id_proof, round_present_in) ==
    LET validators_signed == [i \in Slots |-> vals[i].signed]
        validators_enabled == [i \in Slots |-> vals[i].enabled]
        validators_enabled_u32 == [i \in Slots |-> IF vals[i].enabled THEN 1 ELSE 0]
        validator_voting_power == [i \in Slots |-> vals[i].voting_power]
        extracted_hash == extract_hash_from_protobuf(val_proof.enc_leaf)
        total_voting_power == get_total_voting_power(validator_voting_power)
        check_voting_power_bool ==
            check_voting_power(validator_voting_power, validators_enabled_u32,
                               total_voting_power.value, 2, 3)
        header_from_data_root_proof ==
            get_root_from_merkle_proof(data_proof.proof, data_hash_path,
                                       leaf_hash(data_proof.enc_leaf))
        header_from_validator_root_proof ==
            get_root_from_merkle_proof(val_proof.proof, val_hash_path,
                                       leaf_hash(val_proof.enc_leaf))
        header_from_next_validators_root_proof ==
            get_root_from_merkle_proof(next_val_proof.proof, next_val_hash_path,
                                       leaf_hash(next_val_proof.enc_leaf))
        header_from_last_block_id_proof ==
            get_root_from_merkle_proof(block_id_proof.proof, last_block_id_path,
                                       leaf_hash(block_id_proof.enc_leaf))
    IN  /\ \A i \in Slots : marshal_int64_varint_ok(vals[i].voting_power)
        /\ validators_hash_target(vals) = extracted_hash
        /\ total_voting_power.ok
        /\ check_voting_power_bool.ok
        /\ check_voting_power_bool.value
        /\ verify_signatures(validators_signed, [i \in Slots |-> vals[i].sig_valid])
        /\ \A i \in Slots :
              verify_hash_in_message(vals[i].message, hdr, round_present_in)
                  = validators_signed[i]
        /\ hdr = header_from_data_root_proof
        /\ hdr = header_from_validator_root_proof
        /\ hdr = header_from_next_validators_root_proof
        /\ hdr = header_from_last_block_id_proof
        /\ prev_header_connected(prev_hdr, block_id_proof.enc_leaf)

\* the number of fields of a header
HeaderFieldCount == 14

\* the encoded fields of a header: last_block_id is field 4, data_hash 6,
\* validators_hash 7 and next_validators_hash 8; the other fields are opaque
HeaderFields(last_block_id, data_hash, validators_hash, next_validators_hash) ==
    [k \in 1..HeaderFieldCount |->
        CASE k = 5 -> encode_block_id(last_block_id)
          [] k = 7 -> encode_hash(data_hash)
          [] k = 8 -> encode_hash(validators_hash)
          [] k = 9 -> encode_hash(next_validators_hash)
          [] OTHER -> <<k - 1>>]

\* generate_proofs_from_header: the header hash and a proof for every field
generate_proofs_from_header(fields) == proofs_from_byte_slices(fields)

\* the hashes of the run that are not computed from modelled data
TrustedHeaderHash == Foreign(1)
DataHash == Foreign(2)
TargetNextValidatorsHash == Foreign(3)
OtherHash == Foreign(9)

\* the kinds of slot generate_step_inputs builds: a commit signature, a
\* validator that did not vote, and a padding slot
SlotKinds == {"commit", "absent", "padding"}

\* the message of a slot: sign bytes that carry the header hash where the
\* round flag says, or the zero bytes of a slot that did not sign
SlotMessage(carries, hdr, round_present_in) ==
    IF carries
    THEN IF round_present_in THEN Message(OtherHash, hdr) ELSE Message(hdr, OtherHash)
    ELSE Message(zero_hash, zero_hash)

\* the public key of slot i
SlotPubkey(i) == [k \in 1..PUBKEY_BYTES_LEN |-> i + 1]

\* the slot i of kind and power, without its message
SlotOf(i, kind, power) ==
    ValidatorTarget(SlotPubkey(i), I64(power),
                    validator_byte_length_of(SlotPubkey(i), I64(power)),
                    kind # "padding", kind = "commit",
                    Message(zero_hash, zero_hash), kind = "commit")

\* the ways an input is made to differ from what generate_step_inputs builds
Faults ==
    {<<"none", 0, 0>>, <<"prev", 0, 0>>, <<"valhash", 0, 0>>, <<"trusted", 0, 0>>,
     <<"previd", 0, 0>>}
    \cup {<<"sig", i, 0>> : i \in Slots}
    \cup {<<"msg", i, 0>> : i \in Slots}
    \cup {<<"leaf", p, 0>> : p \in 1..4}
    \cup {<<"aunt", p, j>> : p \in 1..4, j \in 1..4}
    \cup {<<"path", p, j>> : p \in 1..4, j \in 1..4}

\* the proof of field index, with the fault applied when it is about proof p
FieldProof(fields, proofs, index, p, fault) ==
    LET own == proofs[index + 1]
        enc == fields[index + 1]
        path == get_path_indices(index, HeaderFieldCount)
    IN  InclusionProof(
            IF (fault[1] = "leaf" /\ fault[2] = p) \/ (fault[1] = "previd" /\ index = 4)
            THEN [enc EXCEPT ![3] = OtherHash] ELSE enc,
            IF fault[1] = "path" /\ fault[2] = p
            THEN [path EXCEPT ![fault[3]] = ~path[fault[3]]] ELSE path,
            IF fault[1] = "aunt" /\ fault[2] = p
            THEN [own.aunts EXCEPT ![fault[3]] = OtherHash] ELSE own.aunts)

InitStep ==
    /\ pc = "step_start"
    /\ accepted = "none"
    /\ \E powers \in [Slots -> 0..MaxPower], kinds \in [Slots -> SlotKinds],
          fault \in Faults, rp \in BOOLEAN :
          /\ fault[1] # "none" => (~rp => \A i \in Slots : powers[i] = 1)
          /\ fault[1] # "none" => (rp => \A i \in Slots : powers[i] = (i % 2) + 1)
          /\ fault[1] = "none" => ~rp
          /\ \E plain \in {[i \in Slots |-> SlotOf(i, kinds[i], powers[i])]} :
             \E set_hash \in {validators_hash_target(plain)} :
             \E fields \in {HeaderFields(TrustedHeaderHash, DataHash,
                               IF fault[1] = "valhash" THEN OtherHash ELSE set_hash,
                               TargetNextValidatorsHash)} :
             \E gen \in {generate_proofs_from_header(fields)} :
                /\ validators =
                      [i \in Slots |->
                          [plain[i] EXCEPT
                              !.message = SlotMessage(
                                  (kinds[i] = "commit") # (fault[1] = "msg" /\ fault[2] = i),
                                  gen.root_hash, rp),
                              !.sig_valid =
                                  kinds[i] = "commit" /\ ~(fault[1] = "sig" /\ fault[2] = i)]]
                /\ header = gen.root_hash
                /\ prev_header = IF fault[1] \in {"prev", "previd"}
                                 THEN OtherHash ELSE TrustedHeaderHash
                /\ data_hash_proof = FieldProof(fields, gen.proofs, 6, 1, fault)
                /\ validator_hash_proof = FieldProof(fields, gen.proofs, 7, 2, fault)
                /\ next_validators_hash_proof = FieldProof(fields, gen.proofs, 8, 3, fault)
                /\ last_block_id_proof = FieldProof(fields, gen.proofs, 4, 4, fault)
                /\ round_present = rp
                /\ trusted_next_validators_hash =
                      IF fault[1] = "trusted" THEN OtherHash ELSE set_hash
    /\ IdleMerkle
    /\ IdleSplit
    /\ IdleLayer
    /\ IdleFn

\* the circuit built by step is run on the inputs
Step ==
    /\ pc = "step_start"
    /\ accepted' = IF step(validators, header, prev_header, data_hash_proof,
                           validator_hash_proof, next_validators_hash_proof,
                           last_block_id_proof, round_present)
                   THEN "accept" ELSE "reject"
    /\ pc' = "step_done"
    /\ UNCHANGED <<stepInputs, merkleVars, splitVars, layerVars, fnVars>>

NextStep == Step

SpecStep == InitStep /\ [][NextStep]_vars

\* the voting power of the slots among the first n that satisfy the flag
RECURSIVE PowerOf(_, _)
PowerOf(flag, n) ==
    IF n = 0 THEN 0
    ELSE (IF flag[n - 1] THEN I64Value(validators[n - 1].voting_power) ELSE 0)
         + PowerOf(flag, n - 1)

SignedPower == PowerOf([i \in Slots |-> validators[i].signed], VALIDATOR_SET_SIZE_MAX)
EnabledPower == PowerOf([i \in Slots |-> validators[i].enabled], VALIDATOR_SET_SIZE_MAX)
TotalPower == PowerOf([i \in Slots |-> TRUE], VALIDATOR_SET_SIZE_MAX)

StepAccepted == pc = "step_done" /\ accepted = "accept"

\* C3: in step the voting power compared against the 2/3 threshold is the sum
\* of the voting power of the validators marked signed; an enabled slot that
\* is not signed adds nothing, so step accepts only if the signed validators
\* hold at least 2/3 of the total power.
C3_ThresholdCountsSigned ==
    StepAccepted => 3 * SignedPower >= 2 * TotalPower

\* C4: step accepts a target header only if the next_validators_hash of the
\* trusted header equals hash_validator_set of the validators that signed
\* the target header.
C4_TrustedNextValidatorsHash ==
    StepAccepted => trusted_next_validators_hash = validators_hash_target(validators)

\* the proof folds to the header hash as the proof of leaf index of the
\* fourteen header fields
FoldsToHeader(proof, index) ==
    compute_hash_from_aunts(index, HeaderFieldCount, leaf_hash(proof.enc_leaf),
                            proof.proof) = header

\* C5: step has no partial acceptance: whenever step accepts, the validator-set
\* hash equals the hash carried by the validators_hash leaf, the voting-power
\* threshold check is true, the signature of every signed validator is valid,
\* and each of the four field proofs folds to the header hash.
C5_NoPartialAcceptance ==
    StepAccepted =>
        /\ validators_hash_target(validators) = validator_hash_proof.enc_leaf[3]
        /\ 3 * EnabledPower >= 2 * TotalPower
        /\ \A i \in Slots : validators[i].signed => validators[i].sig_valid
        /\ FoldsToHeader(data_hash_proof, 6)
        /\ FoldsToHeader(validator_hash_proof, 7)
        /\ FoldsToHeader(next_validators_hash_proof, 8)
        /\ FoldsToHeader(last_block_id_proof, 4)

\* step accepted inputs in which three validators signed and a padding slot
\* follows
C5_Witness ==
    /\ StepAccepted
    /\ \A i \in 0..2 : validators[i].signed /\ validators[i].sig_valid
    /\ ~validators[3].enabled
    /\ FoldsToHeader(data_hash_proof, 6)
    /\ 3 * EnabledPower >= 2 * TotalPower


-----------------------------------------------------------------------------
(* SpecThreshold: voting_power_greater_than_threshold applied to every pair  *)
(* of two-limb powers and a few thresholds, src/src/validator.rs.            *)

\* the (numerator, denominator) pairs tried; 2/3 is the threshold step uses
ThresholdPairs == {<<2, 3>>, <<1, 2>>, <<1, 1>>, <<LimbBase - 1, 2>>}

\* every value of two limbs
I64Values == 0..(LimbBase * LimbBase - 1)

InitThreshold ==
    /\ pc = "threshold_call"
    /\ \E accumulated \in I64Values, total \in I64Values, threshold \in ThresholdPairs :
           args = [accumulated_power |-> I64(accumulated),
                   total_voting_power |-> I64(total),
                   threshold_numerator |-> threshold[1],
                   threshold_denominator |-> threshold[2]]
    /\ ret = Idle
    /\ IdleMerkle
    /\ IdleSplit
    /\ IdleLayer
    /\ IdleStep

\* the gadget is evaluated on the arguments
VotingPowerGreaterThanThreshold ==
    /\ pc = "threshold_call"
    /\ ret' = voting_power_greater_than_threshold(
                  args.accumulated_power, args.total_voting_power,
                  args.threshold_numerator, args.threshold_denominator)
    /\ pc' = "threshold_done"
    /\ UNCHANGED <<args, merkleVars, splitVars, layerVars, stepVars>>

NextThreshold == VotingPowerGreaterThanThreshold

SpecThreshold == InitThreshold /\ [][NextThreshold]_vars

\* accumulated * denominator of the call, on exact integers
ScaledAccumulated == I64Value(args.accumulated_power) * args.threshold_denominator

\* total * numerator of the call, on exact integers
ScaledTotal == I64Value(args.total_voting_power) * args.threshold_numerator

-----------------------------------------------------------------------------
(* SpecAccumulate: the accumulation loop of check_voting_power applied to    *)
(* validator sets of small, limb-crossing and maximal voting powers,         *)
(* src/src/validator.rs.                                                     *)

\* the voting powers tried: around zero, around a limb, around the maximum
PowerSamples ==
    {0, 1, LimbBase - 1, LimbBase, (LimbBase * LimbBase) \div 2 - 1, LimbBase * LimbBase - 1}

InitAccumulate ==
    /\ pc = "accumulate_call"
    /\ \E powers \in [Slots -> PowerSamples], flags \in [Slots -> {0, 1}] :
           args = [validator_voting_power |-> [i \in Slots |-> I64(powers[i])],
                   validator_enabled |-> flags]
    /\ ret = Idle
    /\ IdleMerkle
    /\ IdleSplit
    /\ IdleLayer
    /\ IdleStep

\* the loop runs over every slot, from the zero accumulator
AccumulateVotingPower ==
    /\ pc = "accumulate_call"
    /\ ret' = accumulate_voting_power(args.validator_voting_power, args.validator_enabled, 0,
                                      [value |-> <<0, 0>>, ok |-> TRUE])
    /\ pc' = "accumulate_done"
    /\ UNCHANGED <<args, merkleVars, splitVars, layerVars, stepVars>>

NextAccumulate == AccumulateVotingPower

SpecAccumulate == InitAccumulate /\ [][NextAccumulate]_vars

\* the exact sum of the voting power of the first n slots whose flag is 1
RECURSIVE EnabledSum(_)
EnabledSum(n) ==
    IF n = 0 THEN 0
    ELSE (IF args.validator_enabled[n - 1] = 1
          THEN I64Value(args.validator_voting_power[n - 1]) ELSE 0) + EnabledSum(n - 1)

\* the arguments with the voting power of every slot whose flag is 0 set to zero
DisabledZeroed ==
    [i \in Slots |-> IF args.validator_enabled[i] = 1
                     THEN args.validator_voting_power[i] ELSE <<0, 0>>]

\* C12: the accumulation of check_voting_power is rejected exactly when the
\* exact sum of the voting power of the slots whose enabled flag is 1 does not
\* fit in two limbs; otherwise the accumulator holds exactly that sum, and the
\* voting power of a slot whose flag is 0 has no effect on it.
C12_AccumulationExact ==
    pc = "accumulate_done" =>
        /\ ret.ok <=> EnabledSum(VALIDATOR_SET_SIZE_MAX) < LimbBase * LimbBase
        /\ ret.ok => I64Value(ret.value) = EnabledSum(VALIDATOR_SET_SIZE_MAX)
        /\ ret = accumulate_voting_power(DisabledZeroed, args.validator_enabled, 0,
                                         [value |-> <<0, 0>>, ok |-> TRUE])

\* an accepted accumulation that carries into the high limb while a slot
\* with flag 0 holds the maximal voting power
C12_Witness ==
    /\ pc = "accumulate_done"
    /\ ret.ok /\ ret.value[2] > 0
    /\ \E i \in Slots : /\ args.validator_enabled[i] = 0
                         /\ I64Value(args.validator_voting_power[i]) = LimbBase * LimbBase - 1
    /\ \E i \in Slots, j \in Slots :
           /\ i # j
           /\ args.validator_enabled[i] = 1 /\ args.validator_enabled[j] = 1
           /\ args.validator_voting_power[i] = I64(LimbBase - 1)
           /\ args.validator_voting_power[j] = I64(1)


-----------------------------------------------------------------------------
(* SpecPath: get_path_indices of src/src/inputs.rs for every leaf of every   *)
(* tree of up to MaxPathTotal leaves, next to the proof that                 *)
(* proofs_from_byte_slices builds for that leaf.                             *)

\* total distinct leaves
PathItems(total) == [i \in 1..total |-> <<i>>]

InitPath ==
    /\ pc = "path_call"
    /\ \E total \in 1..MaxPathTotal, index \in 0..(MaxPathTotal - 1) :
           /\ index < total
           /\ \E made \in {proofs_from_byte_slices(PathItems(total))} :
                  args = [index |-> index, total |-> total,
                          root_hash |-> made.root_hash,
                          proof |-> made.proofs[index + 1]]
    /\ ret = Idle
    /\ IdleMerkle
    /\ IdleSplit
    /\ IdleLayer
    /\ IdleStep

\* the path of the leaf is computed and the proof's aunts are folded with it
GetPathIndices ==
    /\ pc = "path_call"
    /\ \E path_indices \in {get_path_indices(args.index, args.total)} :
           ret' = [path_indices |-> path_indices,
                   hash |-> get_root_from_merkle_proof(args.proof.aunts, path_indices,
                                                       args.proof.leaf_hash)]
    /\ pc' = "path_done"
    /\ UNCHANGED <<args, merkleVars, splitVars, layerVars, stepVars>>

NextPath == GetPathIndices

SpecPath == InitPath /\ [][NextPath]_vars

\* C13: for every total >= 1 and index < total, get_path_indices(index, total)
\* has as many bits as the proof of leaf index in a tree of total leaves has
\* aunts.
C13_PathLengthIsDepth ==
    pc = "path_done" => Len(ret.path_indices) = Len(args.proof.aunts)

\* C14: for every total >= 1 and index < total, folding the proof's aunts from
\* the leaf upward with the bits of get_path_indices(index, total) gives the
\* root that compute_hash_from_aunts(index, total, leaf_hash, aunts) gives.
C14_PathFoldsToRoot ==
    pc = "path_done" =>
        ret.hash = compute_hash_from_aunts(args.index, args.total, args.proof.leaf_hash,
                                           args.proof.aunts)


-----------------------------------------------------------------------------
(* The path supplied with each inclusion proof of step, src/src/step.rs.     *)

\* C15: step accepts only if the path supplied in data_hash_proof,
\* validator_hash_proof, next_validators_hash_proof and last_block_id_proof
\* is the expected path of that field (indices 6, 7, 8, 4 of the 14 header
\* fields); a proof that carries another path is rejected.
C15_UnexpectedPathRejected ==
    StepAccepted =>
        /\ data_hash_proof.path = data_hash_path
        /\ validator_hash_proof.path = val_hash_path
        /\ next_validators_hash_proof.path = next_val_hash_path
        /\ last_block_id_proof.path = last_block_id_path


-----------------------------------------------------------------------------
(* SpecMessage: verify_hash_in_message on messages given byte by byte,       *)
(* src/src/validator.rs.                                                     *)

\* the header hashes tried: one repeated byte, a period of the distance of
\* the two offsets, and 32 different bytes
MessageHashes ==
    {[i \in 1..HASH_SIZE |-> 7],
     [i \in 1..HASH_SIZE |->
         1 + ((i - 1) % (including_round_start_idx - missing_round_start_idx))],
     [i \in 1..HASH_SIZE |-> 100 + i]}

\* bytes with hash written at byte offset
Place(bytes, offset, hash) ==
    [i \in 1..Len(bytes) |->
        IF i > offset /\ i <= offset + Len(hash) THEN hash[i - offset] ELSE bytes[i]]

\* where the message holds the hash
Placements == {"nowhere", "missing", "present", "both"}

\* the message of a placement, before any byte of it is changed
PlacedMessage(placement, hash) ==
    LET zeros == [i \in 1..VALIDATOR_MESSAGE_BYTES_LENGTH_MAX |-> 0]
    IN  CASE placement = "nowhere" -> zeros
          [] placement = "missing" -> Place(zeros, missing_round_start_idx, hash)
          [] placement = "present" -> Place(zeros, including_round_start_idx, hash)
          [] placement = "both" ->
                Place(Place(zeros, missing_round_start_idx, hash),
                      including_round_start_idx, hash)

\* the byte positions changed: none (0), and the bytes at the edges of the
\* two windows and next to them
ChangedBytes ==
    {0, missing_round_start_idx, missing_round_start_idx + 1,
     including_round_start_idx, including_round_start_idx + 1,
     missing_round_start_idx + HASH_SIZE, missing_round_start_idx + HASH_SIZE + 1,
     including_round_start_idx + HASH_SIZE, including_round_start_idx + HASH_SIZE + 1}

InitMessage ==
    /\ pc = "message_call"
    /\ \E hash \in MessageHashes, placement \in Placements,
          changed \in ChangedBytes, round_present_in_message \in BOOLEAN :
          \E placed \in {PlacedMessage(placement, hash)} :
             args = [message |-> IF changed = 0 THEN placed
                                 ELSE [placed EXCEPT ![changed] = 255 - placed[changed]],
                     header_hash |-> hash,
                     round_present_in_message |-> round_present_in_message]
    /\ ret = Idle
    /\ IdleMerkle
    /\ IdleSplit
    /\ IdleLayer
    /\ IdleStep

\* the gadget is evaluated on the message
VerifyHashInMessage ==
    /\ pc = "message_call"
    /\ ret' = verify_hash_in_message(MessageBytes(args.message), args.header_hash,
                                     args.round_present_in_message)
    /\ pc' = "message_done"
    /\ UNCHANGED <<args, merkleVars, splitVars, layerVars, stepVars>>

NextMessage == VerifyHashInMessage

SpecMessage == InitMessage /\ [][NextMessage]_vars

\* whether bytes offset..offset+32 of the message of the call are the header hash
HoldsHashAt(offset) ==
    \A i \in 1..HASH_SIZE : args.message[offset + i] = args.header_hash[i]

\* C16: verify_hash_in_message succeeds with round_present = false exactly
\* when message bytes 16..48 are the header hash and with round_present = true
\* exactly when message bytes 25..57 are; a message that holds the header
\* hash only at the offset of the other flag value is rejected.
C16_HashAtOffsetOfFlag ==
    pc = "message_done" =>
        /\ ~args.round_present_in_message => (ret <=> HoldsHashAt(16))
        /\ args.round_present_in_message => (ret <=> HoldsHashAt(25))

\* a message with the header hash at bytes 25..57 only, rejected because the
\* round flag is false
C16_Witness ==
    /\ pc = "message_done"
    /\ ~args.round_present_in_message
    /\ HoldsHashAt(25) /\ ~HoldsHashAt(16)
    /\ ret = FALSE


-----------------------------------------------------------------------------
(* SpecVarint: marshal_int64_varint on voting powers given by the 64 bits    *)
(* that u32_to_bits_le yields for their two limbs, src/src/validator.rs.     *)

\* the number of bits of an I64Target
I64_BITS == 64

\* the bits of the value whose k lowest bits are set
LowOnes(k) == [i \in 1..I64_BITS |-> IF i <= k THEN 1 ELSE 0]

\* the bits of the value 2^k
OneBit(k) == [i \in 1..I64_BITS |-> IF i = k + 1 THEN 1 ELSE 0]

\* the voting powers of test_marshal_int64_varint whose limbs are below 2^31:
\* 1, 1234567890, 38957235239, 9999999999999, 724325643436111
TestPowers ==
    {<<1, 0>>, <<1234567890, 0>>, <<302529575, 9>>, <<1316134911, 2328>>,
     <<883802191, 168645>>}

\* the voting powers tried: 2^k - 1 and 2^k for every k, and the test values
VotingPowerBits ==
    {LowOnes(k) : k \in 0..I64_BITS} \cup {OneBit(k) : k \in 0..(I64_BITS - 1)}
    \cup {voting_power_bits_of(p) : p \in TestPowers}

InitVarint ==
    /\ pc = "varint_call"
    /\ \E voting_power_bits \in VotingPowerBits :
           args = [voting_power_bits |-> voting_power_bits]
    /\ ret = Idle
    /\ IdleMerkle
    /\ IdleSplit
    /\ IdleLayer
    /\ IdleStep

\* the gadget is evaluated on the bits
MarshalInt64Varint ==
    /\ pc = "varint_call"
    /\ ret' = [buffer |-> marshal_voting_power_bits(args.voting_power_bits),
               ok |-> voting_power_msb_zero(args.voting_power_bits)]
    /\ pc' = "varint_done"
    /\ UNCHANGED <<args, merkleVars, splitVars, layerVars, stepVars>>

NextVarint == MarshalInt64Varint

SpecVarint == InitVarint /\ [][NextVarint]_vars

\* the value of up to 7 bits, lowest first
RECURSIVE BitsValue(_)
BitsValue(bits) == IF bits = <<>> THEN 0 ELSE Head(bits) + 2 * BitsValue(Tail(bits))

\* n zeros
Zeros(n) == [i \in 1..n |-> 0]

\* the protobuf varint of the value given by bits (a multiple of 7 of them):
\* emit the low 7 bits, with the top bit set while a higher bit is set
RECURSIVE ProtobufVarint(_)
ProtobufVarint(bits) ==
    LET low == BitsValue(SubSeq(bits, 1, 7))
        rest == SubSeq(bits, 8, Len(bits))
    IN  IF \A i \in DOMAIN rest : rest[i] = 0 THEN <<low>>
        ELSE <<low + 128>> \o ProtobufVarint(rest)

\* the bits a protobuf varint decodes to: 7 per byte, up to the first byte
\* without the top bit
RECURSIVE DecodeVarint(_)
DecodeVarint(bytes) ==
    IF bytes = <<>> THEN <<>>
    ELSE bits_le(Head(bytes) % 128, 7)
         \o (IF Head(bytes) >= 128 THEN DecodeVarint(Tail(bytes)) ELSE <<>>)

\* the 63 value bits of the voting power of the call
ValueBits == SubSeq(args.voting_power_bits, 1, I64_BITS - 1)

\* the expected bytes of test_marshal_int64_varint for the test values
TestVarint(p) ==
    CASE p = <<1, 0>> -> <<1>>
      [] p = <<1234567890, 0>> -> <<210, 133, 216, 204, 4>>
      [] p = <<302529575, 9>> -> <<167, 248, 160, 144, 145, 1>>
      [] p = <<1316134911, 2328>> -> <<255, 191, 202, 243, 132, 163, 2>>
      [] p = <<883802191, 168645>> -> <<207, 128, 183, 165, 211, 216, 164, 1>>

\* C17: marshal_int64_varint rejects exactly the voting powers with bit 63
\* set; for every other voting power its 9 bytes are the protobuf varint of
\* the value followed by zero bytes, and decoding them gives the value back;
\* 0 gives a single zero byte and 2^63 - 1 gives eight bytes 255 and 127.
C17_VarintOfVotingPower ==
    pc = "varint_done" =>
        /\ ret.ok <=> args.voting_power_bits[64] = 0
        /\ Len(ret.buffer) = 9
        /\ ret.ok =>
              LET varint == ProtobufVarint(ValueBits)
                  decoded == DecodeVarint(ret.buffer)
              IN  /\ ret.buffer = varint \o Zeros(9 - Len(varint))
                  /\ decoded \o Zeros(63 - Len(decoded)) = ValueBits
                  /\ ValueBits = Zeros(63) => ret.buffer = <<0, 0, 0, 0, 0, 0, 0, 0, 0>>
                  /\ ValueBits = [i \in 1..63 |-> 1] =>
                         ret.buffer = <<255, 255, 255, 255, 255, 255, 255, 255, 127>>
                  /\ \A p \in TestPowers :
                         args.voting_power_bits = voting_power_bits_of(p) =>
                             ret.buffer = TestVarint(p) \o Zeros(9 - Len(TestVarint(p)))

\* the voting power 2^63 - 1, marshalled into eight bytes 255 and 127
C17_Witness ==
    /\ pc = "varint_done"
    /\ args.voting_power_bits = LowOnes(63)
    /\ ret.ok
    /\ ret.buffer = <<255, 255, 255, 255, 255, 255, 255, 255, 127>>


-----------------------------------------------------------------------------
(* SpecValidator: marshal_tendermint_validator on public keys given by their *)
(* 32 bytes and voting powers given by their bits, src/src/validator.rs.     *)

\* the public keys tried: all zeros as in test_marshal_tendermint_validator,
\* 32 different bytes, and all 255
Pubkeys ==
    {[i \in 1..PUBKEY_BYTES_LEN |-> 0], [i \in 1..PUBKEY_BYTES_LEN |-> 200 + i],
     [i \in 1..PUBKEY_BYTES_LEN |-> 255]}

InitValidator ==
    /\ pc = "validator_call"
    /\ \E pubkey \in Pubkeys, voting_power_bits \in VotingPowerBits :
           /\ voting_power_msb_zero(voting_power_bits)
           /\ args = [pubkey |-> pubkey, voting_power_bits |-> voting_power_bits]
    /\ ret = Idle
    /\ IdleMerkle
    /\ IdleSplit
    /\ IdleLayer
    /\ IdleStep

\* the gadget is evaluated on the public key and the voting power
MarshalTendermintValidator ==
    /\ pc = "validator_call"
    /\ ret' = marshal_validator_bytes(args.pubkey,
                                      marshal_voting_power_bits(args.voting_power_bits))
    /\ pc' = "validator_done"
    /\ UNCHANGED <<args, merkleVars, splitVars, layerVars, stepVars>>

NextValidator == MarshalTendermintValidator

SpecValidator == InitValidator /\ [][NextValidator]_vars

\* the expected bytes of test_marshal_tendermint_validator
TestValidator ==
    <<10, 34, 10, 32>> \o Zeros(32) \o <<16, 207, 128, 183, 165, 211, 216, 164, 1>>

\* C18: marshal_tendermint_validator yields 46 bytes: 10, 34, 10, 32, the 32
\* bytes of the public key in order, 16, and the protobuf varint of the
\* voting power; the meaningful length is 37 plus the length of the varint,
\* between 38 and 46, and every byte after it is zero.
C18_ValidatorLayout ==
    pc = "validator_done" =>
        LET varint == ProtobufVarint(ValueBits)
            meaningful == 37 + Len(varint)
        IN  /\ Len(ret) = 46
            /\ SubSeq(ret, 1, 4) = <<10, 34, 10, 32>>
            /\ \A i \in 1..32 : ret[4 + i] = args.pubkey[i]
            /\ ret[37] = 16
            /\ SubSeq(ret, 38, meaningful) = varint
            /\ meaningful >= 38 /\ meaningful <= 46
            /\ \A i \in (meaningful + 1)..46 : ret[i] = 0
            /\ (args.pubkey = Zeros(32)
                    /\ args.voting_power_bits = voting_power_bits_of(<<883802191, 168645>>))
                => ret = TestValidator \o Zeros(1)

\* a key of 32 different bytes with a voting power of one varint byte,
\* marshalled into 38 meaningful bytes and 8 zero bytes
C18_Witness ==
    /\ pc = "validator_done"
    /\ args.pubkey = [i \in 1..PUBKEY_BYTES_LEN |-> 200 + i]
    /\ args.voting_power_bits = LowOnes(7)
    /\ SubSeq(ret, 37, 46) = <<16, 127, 0, 0, 0, 0, 0, 0, 0, 0>>


-----------------------------------------------------------------------------
(* SpecTuple: encode_data_root_tuple of src/src/commitment.rs on data hashes *)
(* given by their 256 bits and heights below 2^31. A byte of the tuple is 8  *)
(* bits, highest first, as in test_encode_data_root_tuple.                   *)

\* the number of bits of a hash
HASH_SIZE_BITS == HASH_SIZE * 8

\* the sequence s backwards
Reverse(s) == [i \in 1..Len(s) |-> s[Len(s) + 1 - i]]

\* a variant that leaves the bits of the height lowest first
encode_data_root_tuple_unreversed(data_hash, height) ==
    LET height_bits == u32_to_bits_le(height)
    IN  [i \in 1..(HASH_SIZE_BITS * 2) |->
            IF i <= HASH_SIZE_BITS THEN data_hash[i]
            ELSE IF i > HASH_SIZE_BITS * 2 - U32_BITS
                 THEN height_bits[i - (HASH_SIZE_BITS * 2 - U32_BITS)]
                 ELSE 0]

\* encode_data_root_tuple(data_hash, height): the 512 bits of the tuple
encode_data_root_tuple(data_hash, height) ==
    LET height_bits == Reverse(u32_to_bits_le(height))
    IN  [i \in 1..(HASH_SIZE_BITS * 2) |->
            IF i <= HASH_SIZE_BITS THEN data_hash[i]
            ELSE IF i > HASH_SIZE_BITS * 2 - U32_BITS
                 THEN height_bits[i - (HASH_SIZE_BITS * 2 - U32_BITS)]
                 ELSE 0]

\* the bits of bytes, every byte highest bit first
to_be_bits(bytes) ==
    [i \in 1..(8 * Len(bytes)) |-> Reverse(bits_le(bytes[((i - 1) \div 8) + 1], 8))[((i - 1) % 8) + 1]]

\* the data hashes tried: all 255 as in test_encode_data_root_tuple, all
\* zero, and 32 different bytes
TupleDataHashes ==
    {to_be_bits([i \in 1..HASH_SIZE |-> 255]), to_be_bits([i \in 1..HASH_SIZE |-> 0]),
     to_be_bits([i \in 1..HASH_SIZE |-> 8 * i - 3])}

\* the heights tried: 2^k and 2^k - 1, twice 2^k less one, and 0x01020304
TupleHeights ==
    {Shl1(k) : k \in 0..(U32_BITS - 2)} \cup {Shl1(k) - 1 : k \in 0..(U32_BITS - 2)}
    \cup {(Shl1(U32_BITS - 2) - 1) * 2 + 1, 16909060}

InitTuple ==
    /\ pc = "tuple_call"
    /\ \E data_hash \in TupleDataHashes, height \in TupleHeights :
           args = [data_hash |-> data_hash, height |-> height]
    /\ ret = Idle
    /\ IdleMerkle
    /\ IdleSplit
    /\ IdleLayer
    /\ IdleStep

\* the gadget is evaluated on the data hash and the height
EncodeDataRootTuple ==
    /\ pc = "tuple_call"
    /\ ret' = encode_data_root_tuple(args.data_hash, args.height)
    /\ pc' = "tuple_done"
    /\ UNCHANGED <<args, merkleVars, splitVars, layerVars, stepVars>>

NextTuple == EncodeDataRootTuple

SpecTuple == InitTuple /\ [][NextTuple]_vars

\* the byte i (from 0) of bits, highest bit first
ByteAt(bits, i) ==
    128 * bits[8 * i + 1] + 64 * bits[8 * i + 2] + 32 * bits[8 * i + 3]
    + 16 * bits[8 * i + 4] + 8 * bits[8 * i + 5] + 4 * bits[8 * i + 6]
    + 2 * bits[8 * i + 7] + bits[8 * i + 8]

\* C19: encode_data_root_tuple yields 64 bytes: the first 32 are the data
\* hash unchanged, bytes 32..60 are zero and bytes 60..64 are the height as
\* a big-endian integer; height 256 ends in 0, 0, 1, 0.
C19_DataRootTupleLayout ==
    pc = "tuple_done" =>
        /\ Len(ret) = 64 * 8
        /\ \A i \in 0..31 : ByteAt(ret, i) = ByteAt(args.data_hash, i)
        /\ \A i \in 32..59 : ByteAt(ret, i) = 0
        /\ ByteAt(ret, 60) = (args.height \div 16777216) % 256
        /\ ByteAt(ret, 61) = (args.height \div 65536) % 256
        /\ ByteAt(ret, 62) = (args.height \div 256) % 256
        /\ ByteAt(ret, 63) = args.height % 256
        /\ args.height = 256 =>
              <<ByteAt(ret, 60), ByteAt(ret, 61), ByteAt(ret, 62), ByteAt(ret, 63)>>
              = <<0, 0, 1, 0>>

\* the tuple of the data hash of 32 bytes 255 and height 256, ending in
\* 0, 0, 1, 0
C19_Witness ==
    /\ pc = "tuple_done"
    /\ args.height = 256
    /\ \A i \in 0..31 : ByteAt(ret, i) = 255
    /\ ByteAt(ret, 62) = 1 /\ ByteAt(ret, 63) = 0


-----------------------------------------------------------------------------
(* SpecCommitment: get_data_commitment of src/src/commitment.rs called with  *)
(* windows up to one leaf more than the largest capacity.                    *)

\* the encoded data root tuples of a window, told apart by their first byte
WindowTuples(WINDOW_RANGE, first) == [i \in 0..(WINDOW_RANGE - 1) |-> <<first + i>>]

InitCommitment ==
    /\ pc = "commitment_call"
    /\ \E NUM_LEAVES \in Capacities, WINDOW_RANGE \in 0..(Shl1(MaxDepth) + 1),
          first \in {1, 50, 100} :
           args = [tuples |-> WindowTuples(WINDOW_RANGE, first),
                   WINDOW_RANGE |-> WINDOW_RANGE, NUM_LEAVES |-> NUM_LEAVES]
    /\ ret = Idle
    /\ IdleMerkle
    /\ IdleSplit
    /\ IdleLayer
    /\ IdleStep

\* the window fits: the leaves are reduced and the root is returned
GetDataCommitment ==
    /\ pc = "commitment_call"
    /\ ~get_data_commitment_panics(args.WINDOW_RANGE, args.NUM_LEAVES)
    /\ ret' = [root |-> get_data_commitment(args.tuples, args.WINDOW_RANGE, args.NUM_LEAVES)]
    /\ pc' = "commitment_done"
    /\ UNCHANGED <<args, merkleVars, splitVars, layerVars, stepVars>>

\* the window does not fit: the loop panics and nothing is returned
GetDataCommitmentPanics ==
    /\ pc = "commitment_call"
    /\ get_data_commitment_panics(args.WINDOW_RANGE, args.NUM_LEAVES)
    /\ pc' = "commitment_panic"
    /\ UNCHANGED <<args, ret, merkleVars, splitVars, layerVars, stepVars>>

NextCommitment ==
    \/ GetDataCommitment
    \/ GetDataCommitmentPanics

SpecCommitment == InitCommitment /\ [][NextCommitment]_vars

\* C20: get_data_commitment with WINDOW_RANGE > NUM_LEAVES yields no
\* commitment root; a root is returned only for a window that fits.
C20_OversizedWindowRejected ==
    /\ pc = "commitment_done" => args.WINDOW_RANGE <= args.NUM_LEAVES
    /\ (pc # "commitment_call" /\ args.WINDOW_RANGE > args.NUM_LEAVES) =>
           (pc = "commitment_panic" /\ ret = Idle)

\* a call with one leaf more than the capacity, ended without a root
C20_Witness ==
    /\ pc = "commitment_panic"
    /\ args.NUM_LEAVES > 1
    /\ args.WINDOW_RANGE = args.NUM_LEAVES + 1
    /\ ret = Idle


-----------------------------------------------------------------------------
(* Padding slots and the previous header in step, src/src/step.rs.           *)

\* the validators with the voting power of every slot that is not enabled
\* set to zero
ZeroPadding(vals) ==
    [i \in Slots |-> IF vals[i].enabled THEN vals[i]
                     ELSE [vals[i] EXCEPT !.voting_power = <<0, 0>>]]

\* the total voting power step computes the threshold from
StepTotalVotingPower ==
    get_total_voting_power([i \in Slots |-> validators[i].voting_power])

\* the voting power step accumulates
StepAccumulatedVotingPower ==
    accumulate_voting_power([i \in Slots |-> validators[i].voting_power],
                            [i \in Slots |-> IF validators[i].enabled THEN 1 ELSE 0], 0,
                            [value |-> <<0, 0>>, ok |-> TRUE])

\* C21: in step a slot with enabled = false adds nothing to the accumulated
\* voting power and nothing to the total voting power the threshold is
\* computed from, whatever its voting_power field holds; so the verdict of
\* step is the one it gives with the voting power of those slots set to zero.
C21_PaddingAddsNoPower ==
    pc = "step_done" =>
        /\ I64Value(StepAccumulatedVotingPower.value) = EnabledPower
        /\ I64Value(StepTotalVotingPower.value) = EnabledPower
        /\ (accepted = "accept") =
               step(ZeroPadding(validators), header, prev_header, data_hash_proof,
                    validator_hash_proof, next_validators_hash_proof,
                    last_block_id_proof, round_present)


\* C22: step accepts only if prev_header is the hash carried at bytes 2..34
\* of the encoded last_block_id leaf and that leaf, hashed as a leaf and
\* folded with the path of field 4, gives the target header hash; so the
\* prev_header of an accepted step is the hash of the block before, which the
\* target header carries in its last_block_id.
C22_PrevHeaderFromLastBlockId ==
    StepAccepted =>
        /\ prev_header = last_block_id_proof.enc_leaf[3]
        /\ get_root_from_merkle_proof(last_block_id_proof.proof,
                                      get_path_indices(4, HeaderFieldCount),
                                      leaf_hash(last_block_id_proof.enc_leaf)) = header
        /\ FoldsToHeader(last_block_id_proof, 4)
        /\ prev_header = TrustedHeaderHash

\* step accepted a header whose last_block_id carries the hash of the block
\* before, given as prev_header, while the votes carry a round
C22_Witness ==
    /\ StepAccepted
    /\ round_present
    /\ prev_header = TrustedHeaderHash
    /\ last_block_id_proof.enc_leaf = encode_block_id(TrustedHeaderHash)


\* ---------------------------------------------------------------------
\* generate_step_inputs: the validator list built from a signed block
\* ---------------------------------------------------------------------

\* the largest validator set of a block
MaxValidators == 5

BlockIdFlags == {"BlockIdFlagAbsent", "BlockIdFlagCommit", "BlockIdFlagNil"}

\* non_absent_vote: the vote of a commit signature, None for an absent one
non_absent_vote(commit_sig, validator_index, commit) ==
    IF commit_sig.flag = "BlockIdFlagAbsent" THEN None
    ELSE [vote_type |-> "Precommit",
          height |-> commit.height,
          round |-> commit.round,
          block_id |-> IF commit_sig.flag = "BlockIdFlagCommit"
                       THEN commit.block_id ELSE None,
          timestamp |-> commit_sig.timestamp,
          validator_address |-> commit_sig.validator_address,
          validator_index |-> validator_index,
          signature |-> commit_sig.signature]

\* CommitSig::is_commit
is_commit(commit_sig) == commit_sig.flag = "BlockIdFlagCommit"

\* SignedVote::sign_bytes: the encoding of the canonical vote, which holds
\* the type, height, round, block id, timestamp and chain id of the vote
sign_bytes(vote, chain_id) ==
    <<"CanonicalVote", vote.vote_type, vote.height, vote.round,
      vote.block_id, vote.timestamp, chain_id>>

\* ValidatorSet::validator: the validator of the set with this address
validator_set_validator(block_validators, address) ==
    IF \E j \in 1..Len(block_validators) : block_validators[j].address = address
    THEN block_validators[CHOOSE j \in 1..Len(block_validators) :
                              block_validators[j].address = address]
    ELSE None

\* a variant that doubles once more when total has reached the number
RECURSIVE closest_power_of_two_above(_, _)
closest_power_of_two_above(total, len) ==
    IF total <= len THEN closest_power_of_two_above(total * 2, len) ELSE total

\* the closest power of 2 greater than or equal to the number of validators
RECURSIVE closest_power_of_two(_, _)
closest_power_of_two(total, len) ==
    IF total < len THEN closest_power_of_two(total * 2, len) ELSE total

\* the entry pushed for commit signature i (0-based) of the block
signature_entry(block, i) ==
    LET validator == validator_set_validator(block.validators, block.validators[i + 1].address)
        commit_sig == block.commit.signatures[i + 1]
        vote == non_absent_vote(commit_sig, i, block.commit)
    IN  IF is_commit(commit_sig)
        THEN [pubkey |-> validator.pub_key,
              signature |-> vote.signature,
              message |-> sign_bytes(vote, block.chain_id),
              voting_power |-> validator.power,
              enabled |-> TRUE,
              signed |-> TRUE]
        ELSE [pubkey |-> validator.pub_key,
              signature |-> [k \in 1..64 |-> 0],
              message |-> [k \in 1..32 |-> 0],
              voting_power |-> validator.power,
              enabled |-> TRUE,
              signed |-> FALSE]

\* the entry pushed for a slot past the commit signatures
empty_entry ==
    [pubkey |-> [k \in 1..PUBKEY_BYTES_LEN |-> 0],
     signature |-> [k \in 1..64 |-> 0],
     message |-> [k \in 1..32 |-> 0],
     voting_power |-> 0,
     enabled |-> FALSE,
     signed |-> FALSE]

\* the signed block of validator count n with the given flags and powers
SignedBlock(n, flags, powers, round) ==
    [chain_id |-> "celestia",
     validators |-> [j \in 1..n |-> [address |-> 30 + j,
                                     pub_key |-> [k \in 1..PUBKEY_BYTES_LEN |-> j],
                                     power |-> powers[j]]],
     commit |-> [height |-> 11000, round |-> round, block_id |-> Foreign(2),
                 signatures |-> [j \in 1..n |-> [flag |-> flags[j],
                                                 validator_address |-> 30 + j,
                                                 timestamp |-> 10 + j,
                                                 signature |-> [k \in 1..64 |-> j]]]]]

InitInputs ==
    /\ pc = "inputs_call"
    /\ \E n \in 1..MaxValidators, round \in {0, 1} :
         \E flags \in [1..n -> BlockIdFlags], p \in 1..MaxPower :
           args = SignedBlock(n, flags, [j \in 1..n |-> ((j + p) % MaxPower) + 1], round)
    /\ ret = Idle
    /\ IdleMerkle
    /\ IdleSplit
    /\ IdleLayer
    /\ IdleStep

\* the while loop that finds the length of the list
InputsTotal ==
    /\ pc = "inputs_call"
    /\ ret' = [validators |-> <<>>,
               total |-> closest_power_of_two(1, Len(args.validators))]
    /\ pc' = "inputs_signatures"
    /\ UNCHANGED <<args, merkleVars, splitVars, layerVars, stepVars>>

\* one iteration of the loop over the commit signatures; a validator the
\* set does not hold is skipped
InputsSignature ==
    /\ pc = "inputs_signatures"
    /\ LET i == Len(ret.validators)
       IN  IF i < Len(args.commit.signatures)
           THEN /\ ret' = [ret EXCEPT !.validators =
                             IF validator_set_validator(args.validators, args.validators[i + 1].address) = None
                             THEN @
                             ELSE Append(@, signature_entry(args, i))]
                /\ pc' = pc
           ELSE /\ ret' = ret
                /\ pc' = "inputs_empty"
    /\ UNCHANGED <<args, merkleVars, splitVars, layerVars, stepVars>>

\* one iteration of the loop over the slots past the commit signatures
InputsEmpty ==
    /\ pc = "inputs_empty"
    /\ IF Len(ret.validators) < ret.total
       THEN /\ ret' = [ret EXCEPT !.validators = Append(@, empty_entry)]
            /\ pc' = pc
       ELSE /\ ret' = ret
            /\ pc' = "inputs_done"
    /\ UNCHANGED <<args, merkleVars, splitVars, layerVars, stepVars>>

NextInputs ==
    \/ InputsTotal
    \/ InputsSignature
    \/ InputsEmpty

SpecInputs == InitInputs /\ [][NextInputs]_vars

\* the vote of commit signature j of the block in args
SlotVote(j) == non_absent_vote(args.commit.signatures[j], j - 1, args.commit)

\* C23: an absent commit signature yields no vote and hands on neither
\* sign-bytes nor a signature; a commit or nil one yields the Precommit
\* vote with the commit's height and round, the signature's timestamp,
\* address and index, a block id only for commit, and the entry built
\* for it holds the sign-bytes and the signature of that vote.
C23_VoteHandedOn ==
    pc = "inputs_done" =>
        \A j \in 1..Len(args.commit.signatures) :
            LET sig == args.commit.signatures[j]
                entry == ret.validators[j]
            IN  IF sig.flag = "BlockIdFlagAbsent"
                THEN /\ SlotVote(j) = None
                     /\ ~entry.signed
                     /\ entry.message = [k \in 1..32 |-> 0]
                     /\ entry.signature = [k \in 1..64 |-> 0]
                ELSE /\ SlotVote(j) # None
                     /\ SlotVote(j).vote_type = "Precommit"
                     /\ SlotVote(j).height = args.commit.height
                     /\ SlotVote(j).round = args.commit.round
                     /\ SlotVote(j).timestamp = sig.timestamp
                     /\ SlotVote(j).validator_address = sig.validator_address
                     /\ SlotVote(j).validator_index = j - 1
                     /\ (SlotVote(j).block_id # None) = (sig.flag = "BlockIdFlagCommit")
                     /\ entry.signed
                     /\ entry.message = sign_bytes(SlotVote(j), args.chain_id)
                     /\ entry.signature = SlotVote(j).signature


-----------------------------------------------------------------------------
(* The four paths step hard-codes, src/src/step.rs, next to get_path_indices *)
(* and the proofs of generate_proofs_from_header.                            *)

\* the fields of the header that step proves, by index
ProvenFields == {4, 6, 7, 8}

\* the path step hard-codes for the field of this index
HardCodedPath(index) ==
    CASE index = 4 -> last_block_id_path
      [] index = 6 -> data_hash_path
      [] index = 7 -> val_hash_path
      [] index = 8 -> next_val_hash_path

\* C24: in the tree of the 14 header fields, get_path_indices(i, 14) for
\* i = 4, 6, 7, 8 is the path step hard-codes for that field, the proof of
\* each of these leaves has exactly 4 aunts, and folding the aunts of the
\* proof generate_proofs_from_header builds for leaf i with that path gives
\* the header root.
C24_HardCodedPaths ==
    (pc = "path_done" /\ args.total = HeaderFieldCount /\ args.index \in ProvenFields) =>
        /\ ret.path_indices = HardCodedPath(args.index)
        /\ Len(args.proof.aunts) = 4
        /\ ret.hash = args.root_hash
        /\ \E made \in {generate_proofs_from_header(
                           HeaderFields(TrustedHeaderHash, DataHash, OtherHash,
                                        TargetNextValidatorsHash))} :
               /\ Len(made.proofs[args.index + 1].aunts) = 4
               /\ get_root_from_merkle_proof(made.proofs[args.index + 1].aunts,
                                             ret.path_indices,
                                             made.proofs[args.index + 1].leaf_hash)
                      = made.root_hash

\* the path of the validators hash, computed for the 14-leaf tree and folded
C24_Witness ==
    /\ pc = "path_done"
    /\ args.total = HeaderFieldCount
    /\ args.index = 7
    /\ ret.path_indices = <<TRUE, TRUE, TRUE, FALSE>>
    /\ Len(args.proof.aunts) = 4
    /\ ret.hash = args.root_hash


-----------------------------------------------------------------------------
(* The comparison of voting_power_greater_than_threshold at equality.        *)

\* C25: voting_power_greater_than_threshold, and with it check_voting_power,
\* returns true only when accumulated * denominator > total * numerator; at
\* accumulated * denominator = total * numerator it returns false.
C25_StrictlyGreater ==
    (pc = "threshold_done" /\ ret.ok) =>
        /\ ret.value => ScaledAccumulated > ScaledTotal
        /\ ScaledAccumulated = ScaledTotal => ~ret.value


-----------------------------------------------------------------------------
(* The header hash in the message of every slot of step, src/src/step.rs.    *)

\* the header hash is in the message of slot i at the offset round_present
\* selects
HeaderInMessage(i) ==
    header = IF round_present THEN validators[i].message.at25
             ELSE validators[i].message.at16

-----------------------------------------------------------------------------
(* SpecAunts: compute_hash_from_aunts of src/src/merkle.rs on every index,   *)
(* total and number of aunts, fitting the tree or not.                       *)

\* the largest total and index tried
MaxTreeTotal == 9

\* n distinct aunts
AuntHashes(n) == [j \in 1..n |-> Foreign(j)]

InitAunts ==
    /\ pc = "aunts_call"
    /\ \E index \in 0..MaxTreeTotal, total \in 0..MaxTreeTotal, n \in 0..(MaxDepth + 2) :
           args = [index |-> index, total |-> total,
                   leaf_hash |-> leaf_hash(<<index>>),
                   inner_hashes |-> AuntHashes(n)]
    /\ ret = Idle
    /\ IdleMerkle
    /\ IdleSplit
    /\ IdleLayer
    /\ IdleStep

\* the call returns a hash or None, unless it meets a panic
ComputeHashFromAunts ==
    /\ pc = "aunts_call"
    /\ IF compute_hash_from_aunts_panics(args.index, args.total, args.inner_hashes)
       THEN /\ ret' = ret
            /\ pc' = "aunts_panic"
       ELSE /\ ret' = [hash |-> compute_hash_from_aunts(args.index, args.total,
                                                        args.leaf_hash, args.inner_hashes)]
            /\ pc' = "aunts_done"
    /\ UNCHANGED <<args, merkleVars, splitVars, layerVars, stepVars>>

NextAunts == ComputeHashFromAunts

SpecAunts == InitAunts /\ [][NextAunts]_vars

\* the depth of leaf index in the tree of total leaves: the number of aunts
\* of the proof proofs_from_byte_slices builds for it
LeafDepth(index, total) ==
    Len(proofs_from_byte_slices(PathItems(total)).proofs[index + 1].aunts)

\* C27: compute_hash_from_aunts(index, total, leaf_hash, aunts) returns a hash
\* exactly when index < total and the number of aunts is the depth of leaf
\* index in the tree of total leaves; for total = 0, index >= total, too few
\* or too many aunts it returns None; and it never panics.
C27_HashOrNone ==
    /\ pc # "aunts_panic"
    /\ pc = "aunts_done" =>
          /\ (args.total = 0 \/ args.index >= args.total) => ret.hash = None
          /\ args.index < args.total =>
                \E depth \in {LeafDepth(args.index, args.total)} :
                    /\ Len(args.inner_hashes) = depth => ret.hash # None
                    /\ Len(args.inner_hashes) < depth => ret.hash = None
                    /\ Len(args.inner_hashes) > depth => ret.hash = None

\* a hash returned for the deepest leaf of a tree that is not a power of two
C27_Witness ==
    /\ pc = "aunts_done"
    /\ args.total = 5 /\ args.index = 1
    /\ Len(args.inner_hashes) = 3
    /\ ret.hash # None


-----------------------------------------------------------------------------
(* The enabled flags of a layer and of the layer reduced from it, SpecLayer. *)

\* among the first size flags no enabled slot follows a disabled slot
LayerIsPrefix(flags, size) ==
    \A i \in 0..(size - 2) : ~flags[i] => ~flags[i + 1]

\* a pair of the layer whose left node is disabled and whose right node is
\* enabled
DisabledLeftOfEnabled(flags, size) ==
    \E i \in 0..(size - 2) : i % 2 = 0 /\ ~flags[i] /\ flags[i + 1]

\* C28: if in a layer no enabled slot follows a disabled slot, the same holds
\* for the layer hash_merkle_layer makes of it; so from leaves whose enabled
\* flags are a prefix, no layer of hash_validator_set or get_data_commitment
\* has a pair with the left node disabled and the right node enabled.
C28_PrefixKept ==
    /\ [][(pc = "layers" /\ merkle_layer_size' # merkle_layer_size
           /\ LayerIsPrefix(current_node_enabled, merkle_layer_size)) =>
             LayerIsPrefix(current_node_enabled', merkle_layer_size')]_vars
    /\ []((pc = "layers" /\ IsPrefix(enabled_in)) =>
             /\ LayerIsPrefix(current_node_enabled, merkle_layer_size)
             /\ ~DisabledLeftOfEnabled(current_node_enabled, merkle_layer_size))

\* the second layer of a reduction of eight slots of which the first three
\* are enabled: two enabled parents, then two disabled ones
C28_Witness ==
    /\ pc = "layers"
    /\ Cardinality(DOMAIN enabled_in) = 8
    /\ IsPrefix(enabled_in) /\ NumEnabled(enabled_in) = 3
    /\ merkle_layer_size = 4
    /\ current_node_enabled[0] /\ current_node_enabled[1]
    /\ ~current_node_enabled[2] /\ ~current_node_enabled[3]


-----------------------------------------------------------------------------
(* The vectors hash_merkle_layer updates in place, SpecLayer.                *)

\* the number of slots of the vectors, which never shrink
Capacity == Cardinality(DOMAIN entries)

\* the slots a layer of this size reads and the slots it writes
LayerReads(size) == UNION {iteration_reads(i) : i \in layer_iterations(size)}
LayerWrites(size) == {iteration_writes(i) : i \in layer_iterations(size)}

\* the parent of pair p computed from the vectors as they were before the
\* layer
ParentOfPair(hashes, flags, p) ==
    [hash |-> IF flags[2 * p] /\ flags[2 * p + 1]
              THEN inner_hash(hashes[2 * p], hashes[2 * p + 1])
              ELSE hashes[2 * p],
     enabled |-> flags[2 * p] \/ flags[2 * p + 1]]

\* C29: with a capacity that is a power of two, every hash and flag a layer
\* of the in-place reduction reads is an original leaf or was written by the
\* layer just before it, and no slot is overwritten before the pair holding
\* it has been read: each layer leaves in slot p the parent of the pair
\* (2p, 2p + 1) as the layer found it, and no entry of an earlier layer is
\* read.
C29_NoStaleRead ==
    /\ [](pc = "layers" =>
            /\ IsPowerOfTwo(Capacity)
            /\ merkle_layer_size > 1 =>
                  /\ LayerReads(merkle_layer_size) \subseteq DOMAIN current_nodes
                  /\ merkle_layer_size = Capacity \/
                         LayerReads(merkle_layer_size) \subseteq LayerWrites(2 * merkle_layer_size)
                  /\ \A i \in layer_iterations(merkle_layer_size) :
                        \A j \in layer_iterations(merkle_layer_size) :
                            iteration_writes(i) \in iteration_reads(j) => j <= i)
    /\ [][(pc = "layers" /\ merkle_layer_size' # merkle_layer_size) =>
             /\ 2 * merkle_layer_size' = merkle_layer_size
             /\ \A p \in 0..(merkle_layer_size' - 1) :
                   /\ current_nodes'[p] =
                         ParentOfPair(current_nodes, current_node_enabled, p).hash
                   /\ current_node_enabled'[p] =
                         ParentOfPair(current_nodes, current_node_enabled, p).enabled
             /\ \A q \in DOMAIN current_nodes :
                   q >= merkle_layer_size' =>
                       /\ current_nodes'[q] = current_nodes[q]
                       /\ current_node_enabled'[q] = current_node_enabled[q]]_vars

\* the last layer of a reduction of eight enabled slots: slots 0 and 1 hold
\* the parents written by the layer before, slots 2 and 3 still hold entries
\* of the first layer
C29_Witness ==
    /\ pc = "layers"
    /\ Capacity = 8 /\ NumEnabled(enabled_in) = 8
    /\ merkle_layer_size = 2
    /\ current_nodes[1][1] = "I" /\ current_nodes[1][2][1] = "I"
    /\ current_nodes[2][1] = "I" /\ current_nodes[2][2][1] = "L"


\* C30: for a block with one commit signature per validator, the validator
\* list generate_step_inputs returns has as its length the smallest power of
\* two that is at least the number of validators; its first entries, one per
\* validator in the order of the set, are enabled; every entry after them has
\* enabled = false, signed = false and voting_power = 0; and in every entry
\* signed implies enabled.
C30_ValidatorListShape ==
    (pc = "inputs_done" /\ Len(args.commit.signatures) = Len(args.validators)) =>
        LET n == Len(args.validators)
            len == Len(ret.validators)
        IN  /\ IsPowerOfTwo(len)
            /\ len >= n
            /\ \A smaller \in 1..(len - 1) : IsPowerOfTwo(smaller) => smaller < n
            /\ \A j \in 1..n :
                  /\ ret.validators[j].enabled
                  /\ ret.validators[j].pubkey = args.validators[j].pub_key
                  /\ ret.validators[j].voting_power = args.validators[j].power
            /\ \A j \in (n + 1)..len :
                  /\ ~ret.validators[j].enabled
                  /\ ~ret.validators[j].signed
                  /\ ret.validators[j].voting_power = 0
            /\ \A j \in 1..len : ret.validators[j].signed => ret.validators[j].enabled

\* the list of a block of five validators of which some signed: eight
\* entries, the last three padding
C30_Witness ==
    /\ pc = "inputs_done"
    /\ Len(args.validators) = 5
    /\ Len(ret.validators) = 8
    /\ ret.validators[1].signed /\ ~ret.validators[2].signed
    /\ ret.validators[5].enabled /\ ~ret.validators[6].enabled

=============================================================================
